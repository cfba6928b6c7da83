-------------------------------- MODULE Diagnosis --------------------------------
(***************************************************************************)
(* The read-only diagnosis (src/core/diagnose.ts): the incident is parsed  *)
(* (fingerprint.ts), then the plugin cache, the protected-process artifact *)
(* and the control files are measured in that order, and only what none of *)
(* them explains is classified by crash family (crash-family.ts).          *)
(*                                                                         *)
(* Scores are in hundredths.  Free text is the set of title tokens in it;  *)
(* an artifact is its digest and how many shim blocks it holds; a cache is *)
(* how its files may be read, and what they say (see PluginCache).         *)
(***************************************************************************)
EXTENDS Naturals, Sequences, FiniteSets, FiniteSetsExt

CONSTANTS
  Requests,   \* [incident, defects, cache, artifact, config, preferred]
  None

VARIABLES request, result

vars == << request, result >>

Cache == INSTANCE PluginCache WITH NoContent <- None

-----------------------------------------------------------------------------
(***************************************************************************)
(* The incident.  What it declares is never evidence.                      *)
(***************************************************************************)
NoMetadata ==
  [exception |-> None, module |-> None, symbol |-> None, offset |-> None,
   gpuExit |-> None, gpuRelaunch |-> None, interaction |-> None, page |-> None,
   concurrency |-> None, component |-> None, isolation |-> FALSE, probe |-> FALSE]

\* parseIncidentJson looks at the fields in this order; the first defect is told.
FieldOrder ==
  << "json", "keys", "schema_version", "surface", "failure_phase", "local_facts_digest",
     "build_sha", "crash_metadata", "codex_version", "platform", "error", "stack_frames",
     "config_keys", "feature_ids", "artifact_hashes", "ast_signature_ids" >>

\* The fields whose length or number is bounded.
Bounded ==
  {"crash_metadata", "codex_version", "platform", "error", "stack_frames", "config_keys",
   "feature_ids", "artifact_hashes", "ast_signature_ids"}

CodeOf(field, defect) ==
  CASE field = "json" -> "MALFORMED_JSON"
    [] defect = "too_long" /\ field \in Bounded -> "FIELD_LIMIT"
    [] OTHER -> "MALFORMED_INCIDENT"

\* parseIncidentJson: None, or the code it throws.
Refusal(defects) ==
  LET wrong == {n \in DOMAIN FieldOrder : FieldOrder[n] \in DOMAIN defects}
  IN  IF wrong = {} THEN None
      ELSE CodeOf(FieldOrder[Min(wrong)], defects[FieldOrder[Min(wrong)]])

-----------------------------------------------------------------------------
(***************************************************************************)
(* CRASH_FAMILY_CATALOG                                                    *)
(***************************************************************************)
Family(issue, exceptions, modules, symbols, offsets, interactions, pages, contexts, exits, relaunches, components, title) ==
  [issue |-> issue, exceptions |-> exceptions, modules |-> modules, symbols |-> symbols,
   offsets |-> offsets, interactions |-> interactions, pages |-> pages, contexts |-> contexts,
   exits |-> exits, relaunches |-> relaunches, components |-> components, title |-> title,
   platforms |-> {"windows"}, surfaces |-> {"desktop", "browser_control"}, fix_linked |-> FALSE]

\* access_violation_crbrowser_dom_ready
AccessViolation ==
  Family("32683", {"c0000005"}, {"chrome.dll"}, {"CrBrowserMain"}, {"2e08f46"},
         {"neutral_dom_ready"}, {"neutral"}, {"single", "unknown"}, {}, {},
         {"in_app_browser", "chromium_browser_main"},
         {"browser", "crash", "desktop", "windows", "dom"})

\* cpp_exception_interaction
CppException ==
  Family("33710", {"c06d007f"}, {"chatgpt.exe", "codex.exe"}, {}, {},
         {"link_click", "button_click"}, {"neutral", "unknown"}, {"single", "unknown"}, {}, {},
         {"in_app_browser", "desktop_shell"}, {"browser", "crash", "click", "link", "windows"})

\* gpu_child_relaunch_media
GpuRelaunch ==
  Family("32094", {}, {}, {}, {}, {"media_canvas", "neutral_dom_ready", "unknown"},
         {"media", "canvas"}, {"single", "unknown"}, {"101457950"}, {"18"},
         {"gpu_process", "in_app_browser"}, {"browser", "crash", "gpu", "media", "canvas"})

\* concurrency_webview_attach
WebviewAttach ==
  Family("33202", {}, {}, {}, {}, {"webview_attach"}, {"neutral", "unknown"}, {"multi_side_chat"},
         {}, {}, {"in_app_browser", "webview"},
         {"browser", "crash", "side", "chat", "webview", "concurrent"})

\* complex_page_silent_exit
SilentExit ==
  Family("33762", {}, {}, {}, {}, {"unknown", "neutral_dom_ready"}, {"complex_login"},
         {"single", "unknown"}, {}, {}, {"in_app_browser", "bundled_plugin"},
         {"browser", "crash", "login", "cloudflare", "disable"})

Catalog == {AccessViolation, CppException, GpuRelaunch, WebviewAttach, SilentExit}

CandidateThreshold == 55
HighThreshold      == 82

-----------------------------------------------------------------------------
Meta(fp) == IF fp.metadata = None THEN NoMetadata ELSE fp.metadata

\* isBrowserCrashIncident
BrowserCrash(fp) ==
  \/ fp.metadata # None
  \/ fp.class \in {"access_violation", "native_crash"}
  \/ fp.feature
  \/ {"browser", "crash"} \subseteq fp.words

\* hasStructuralSignal
Structural(m) ==
  \/ \E part \in {m.exception, m.module, m.symbol, m.offset, m.gpuExit, m.gpuRelaunch} : part # None
  \/ m.concurrency \notin {None, "unknown"} \/ m.interaction \notin {None, "unknown"}
  \/ m.page \notin {None, "unknown", "neutral"}

Concrete(pages) == pages \ {"neutral", "unknown"}
Shared         == {None, "unknown", "neutral_dom_ready"}

NeedsGpu(e)  == e.exits # {} \/ e.relaunches # {}
NeedsPage(e) == e.pages # {} /\ Concrete(e.pages) = e.pages

\* Mutant: a family that needs its GPU codes is only refused by other codes.
Gated_GpuAbsent(e, fp) ==
  LET m == Meta(fp)
  IN  \/ fp.os \notin e.platforms \/ fp.surface \notin e.surfaces
      \/ e.exceptions # {} /\ m.exception \notin e.exceptions \cup {None}
      \/ NeedsGpu(e) /\ (m.gpuExit \notin e.exits \cup {None}
                           \/ m.gpuRelaunch \notin e.relaunches \cup {None})
      \/ NeedsPage(e) /\ m.page \notin e.pages
      \/ e.contexts = {"multi_side_chat"} /\ m.concurrency = "single"
      \/ e.interactions # {} /\ m.interaction \notin e.interactions \cup {None, "unknown"}
      \/ e.modules # {} /\ m.module \notin e.modules \cup {None}

\* The hard gates of scoreCandidate.
Gated(e, fp) ==
  LET m == Meta(fp)
  IN  \/ fp.os \notin e.platforms \/ fp.surface \notin e.surfaces
      \/ e.exceptions # {} /\ m.exception \notin e.exceptions \cup {None}
      \/ NeedsGpu(e) /\ (\/ e.exits # {} /\ m.gpuExit \notin e.exits
                         \/ e.relaunches # {} /\ m.gpuRelaunch \notin e.relaunches
                         \/ m.exception \notin e.exceptions \cup {None})
      \/ NeedsPage(e) /\ m.page \notin e.pages
      \/ e.contexts = {"multi_side_chat"} /\ m.concurrency = "single"
      \/ e.interactions # {} /\ m.interaction \notin e.interactions \cup {None, "unknown"}
      \/ e.modules # {} /\ m.module \notin e.modules \cup {None}

\* What of the incident is what the family is known by.
Gpu(e, m) == IF m.gpuExit \notin e.exits THEN 0 ELSE IF m.gpuRelaunch \in e.relaunches THEN 2 ELSE 1

Bit(condition) == IF condition THEN 1 ELSE 0

DefiningHits(e, m) ==
  Bit(m.exception \in e.exceptions) + Bit(m.symbol \in e.symbols) + Bit(m.module \in e.modules)
    + Bit(m.offset \in e.offsets) + Gpu(e, m)
    + Bit(m.interaction \in e.interactions \ Shared) + Bit(m.page \in Concrete(e.pages))
    + Bit(m.concurrency = "multi_side_chat" /\ m.concurrency \in e.contexts)

StructuralHits(e, m) ==
  DefiningHits(e, m) + Bit(m.component \in e.components)
    + Bit(m.interaction \in e.interactions \cap Shared) + Bit(m.page \in e.pages \ Concrete(e.pages))

TitleHits(e, fp) ==
  Cardinality(e.title \cap (fp.words \cup (IF fp.feature THEN {"browser"} ELSE {})
                              \cup (IF fp.class = "native_crash" THEN {"crash"} ELSE {})))

TitleBoost(e, fp) == Min({12, 2 * TitleHits(e, fp)})
TitleOnly(e, fp)  == StructuralHits(e, Meta(fp)) = 0 /\ TitleBoost(e, fp) > 0

\* The weights, before the title.
Weighed(e, fp) ==
  LET m == Meta(fp)
  IN  Min({28, 12 * Bit(m.exception \in e.exceptions) + 8 * Bit(m.symbol \in e.symbols)
                 + 4 * Bit(m.module \in e.modules) + 4 * Bit(m.offset \in e.offsets)
                 + 10 * Gpu(e, m)})
      + 14 * Bit(fp.os \in e.platforms)
      + (IF fp.version THEN 8 ELSE 4)
      + 8 * Bit(fp.surface \in e.surfaces)
      + (IF m.component \in e.components THEN 4 ELSE 2 * Bit(m.component = None))
      + 4 * Bit(m.symbol \in e.symbols)
      + (IF fp.feature THEN 6 ELSE 3 * Bit(fp.surface \in {"desktop", "browser_control"}))
      + (IF m.interaction \in e.interactions THEN 8
         ELSE 3 * Bit(fp.phase \in {"navigation", "tab_discovery", "extension_handshake"}))
      + 6 * Bit(m.page \in e.pages)
      + (IF m.concurrency \notin e.contexts THEN 0
         ELSE IF m.concurrency = "multi_side_chat" THEN 12 ELSE 3)
      + (IF e.fix_linked THEN 6 ELSE 2)

\* Mutant: the preference is weighed like an observation.
Score_Weighty(e, fp, preferred) ==
  LET raw    == Weighed(e, fp) + TitleBoost(e, fp)
      capped == IF TitleOnly(e, fp) THEN Min({raw, CandidateThreshold - 1}) ELSE raw
      nudged == IF e.issue \in preferred /\ ~TitleOnly(e, fp) THEN Min({95, capped + 12}) ELSE capped
  IN  IF Gated(e, fp) THEN 0 ELSE Min({99, nudged})

\* scoreCandidate: the title alone stays below a candidate, and the model's
\* preference adds three.
Score(e, fp, preferred) ==
  LET raw    == Weighed(e, fp) + TitleBoost(e, fp)
      capped == IF TitleOnly(e, fp) THEN Min({raw, CandidateThreshold - 1}) ELSE raw
      nudged == IF e.issue \in preferred /\ ~TitleOnly(e, fp) THEN Min({95, capped + 3}) ELSE capped
  IN  IF Gated(e, fp) THEN 0 ELSE Min({99, nudged})

\* Mutant: what is shared by families is enough to be a candidate.
Survives_SharedOnly(e, fp, preferred) ==
  /\ ~Gated(e, fp) /\ Score(e, fp, preferred) >= CandidateThreshold
  /\ StructuralHits(e, Meta(fp)) >= 2

Survives(e, fp, preferred) ==
  /\ ~Gated(e, fp) /\ Score(e, fp, preferred) >= CandidateThreshold
  /\ ~TitleOnly(e, fp)
  /\ StructuralHits(e, Meta(fp)) >= 2 /\ DefiningHits(e, Meta(fp)) >= 1

\* Best first; equal scores by the number of the issue.
IssueOrder == << "32094", "32683", "33202", "33710", "33762" >>
Rank(e)    == CHOOSE n \in DOMAIN IssueOrder : IssueOrder[n] = e.issue

Before(a, b, fp, preferred) ==
  LET x == Score(a, fp, preferred)
      y == Score(b, fp, preferred)
  IN  x > y \/ (x = y /\ Rank(a) < Rank(b))

Place(e, S, fp, preferred) == 1 + Cardinality({o \in S : Before(o, e, fp, preferred)})

Ranked(fp, preferred) ==
  LET S == {e \in Catalog : Survives(e, fp, preferred)}
  IN  [n \in 1..Min({3, Cardinality(S)}) |-> CHOOSE e \in S : Place(e, S, fp, preferred) = n]

\* Two scores five apart are near or not by the rounding of their difference.
Near(ranked, fp, preferred) ==
  IF Len(ranked) < 2 THEN {FALSE}
  ELSE LET apart == Score(ranked[1], fp, preferred) - Score(ranked[2], fp, preferred)
       IN  IF StructuralHits(ranked[1], Meta(fp)) # StructuralHits(ranked[2], Meta(fp)) THEN {FALSE}
           ELSE IF apart < 5 THEN {TRUE} ELSE IF apart = 5 THEN BOOLEAN ELSE {FALSE}

Classified(state, user, ranked, family) ==
  [state |-> state, user |-> user, candidates |-> [n \in DOMAIN ranked |-> ranked[n].issue],
   family |-> family, repair_eligible |-> FALSE]

\* What is said of the survivors in their order.
Verdicts(ranked, fp, preferred) ==
  {IF ranked = << >> THEN Classified("INCONCLUSIVE", "INCONCLUSIVE", << >>, None)
   ELSE IF ambiguous THEN Classified("INCONCLUSIVE", "INCONCLUSIVE", ranked, None)
   ELSE Classified(IF Score(ranked[1], fp, preferred) >= HighThreshold THEN "HIGH_CONFIDENCE_MATCH"
                   ELSE "ISSUE_CANDIDATE",
                   IF ranked[1].fix_linked THEN "DIAGNOSIS_COMPLETE" ELSE "UPSTREAM_BLOCKED",
                   ranked, ranked[1].issue) :
   ambiguous \in Near(ranked, fp, preferred)}

\* Mutant: the probe is refused in words only.
Classifications_Probe(fp, preferred) == Verdicts(Ranked(fp, preferred), fp, preferred)

\* classifyCrashFamily, of an incident it applies to.
Classifications(fp, preferred) ==
  IF Meta(fp).probe /\ ~Meta(fp).isolation
  THEN {Classified("INCONCLUSIVE", "INCONCLUSIVE", << >>, None)}
  ELSE Verdicts(Ranked(fp, preferred), fp, preferred)

-----------------------------------------------------------------------------
(***************************************************************************)
(* diagnose                                                                *)
(***************************************************************************)
Answer(ok, code, state, user, by, hashes, asts, candidates) ==
  [ok |-> ok, code |-> code, state |-> state, user |-> user, by |-> by, hashes |-> hashes,
   asts |-> asts, candidates |-> candidates, family |-> None]

Fail(code) == Answer(FALSE, code, "INCONCLUSIVE", "INCONCLUSIVE", None, {}, {}, << >>)

Located(by, hashes, asts, candidates) ==
  Answer(TRUE, None, "SOURCE_COMPONENT_LOCATED", "DIAGNOSIS_COMPLETE", by, hashes, asts, candidates)

Inconclusive(hashes, asts) ==
  Answer(TRUE, None, "INCONCLUSIVE", "INCONCLUSIVE", None, hashes, asts, << >>)

\* The bytes measured under their alias, and the signature found in them.
Measured(artifact) ==
  IF artifact.status = "present" THEN {<< "BROWSER_CLIENT_COPY_A", artifact.sha >>} ELSE {}

\* Mutant: what the incident declares counts as found.
Signatures_Declared(artifact, fp) ==
  IF artifact.status = "present" /\ (artifact.blocks = 1 \/ fp.declared_ast) THEN {"PROTECTED"} ELSE {}

\* measureProtectedProcessAst: exactly one block.
Signatures(artifact, fp) ==
  IF artifact.status = "present" /\ artifact.blocks = 1 THEN {"PROTECTED"} ELSE {}

\* signatureCompatible
Compatible(fp) ==
  /\ fp.class = "TypeError" /\ fp.phase = "extension_handshake" /\ fp.frame
  /\ fp.surface = "browser_control" \/ fp.browser_control

\* After the plugin cache: the artifact, the control files, the crash families.
Localized(fp, artifact, config, preferred) ==
  LET hashes == Measured(artifact)
      asts   == Signatures(artifact, fp)
  IN  IF artifact.status \notin {"present", "absent"} THEN {Fail(artifact.status)}
      ELSE IF asts # {} /\ Compatible(fp)
      THEN {Located("artifact", hashes, asts, << "32925" >>)}
      ELSE IF config = "refused" THEN {Fail("CONFIG_PROBE_ERROR")}
      ELSE IF config = "fault" THEN {Located("config", hashes, asts, << "33790" >>)}
      ELSE IF ~BrowserCrash(fp) THEN {Inconclusive(hashes, asts)}
      ELSE {[Answer(TRUE, None, c.state, c.user, None, hashes, asts, c.candidates)
               EXCEPT !.family = c.family] : c \in Classifications(fp, preferred)}

Diagnoses ==
  LET fp     == request.incident
      seen   == Cache!Observed(request.cache.doc)
      hashes == {<< "PLUGIN_CACHE_ENTRY", request.cache.says.measured >>}
  IN  IF Refusal(request.defects) # None THEN {Fail(Refusal(request.defects))}
      ELSE IF seen = "refused" THEN {Fail("PLUGIN_CACHE")}
      ELSE IF seen = "not_a_target"
      THEN Localized(fp, request.artifact, request.config, request.preferred)
      ELSE IF Cache!Classify(request.cache.says) = Cache!NoMechanism THEN {Inconclusive(hashes, {})}
      ELSE {Located("plugin_cache", hashes, {}, << >>)}

\* What the proofs assume: what is absent is not written like a word or a mark.
SoundIncidents ==
  /\ None \notin {"plugin_cache", "artifact", "config", "neutral", "unknown", "multi_side_chat"}
  /\ \A e \in Catalog :
       None \notin {e.issue} \cup e.exceptions \cup e.modules \cup e.symbols \cup e.offsets \cup e.exits
                   \cup e.pages \cup e.interactions

Init == request \in Requests /\ result = None

Diagnose ==
  /\ result = None
  /\ result' \in Diagnoses
  /\ UNCHANGED request

Next == Diagnose

-----------------------------------------------------------------------------
(***************************************************************************)
(* A component is located only by what was measured here and now, and what *)
(* the incident declares of itself is never echoed as measured.  Of a      *)
(* plugin cache that means its bytes: as long as it holds what is required *)
(* of it, no version, generation or record of a reconciliation locates it. *)
(***************************************************************************)
LocatedIsMeasured ==
  result # None =>
    /\ result.state = "SOURCE_COMPONENT_LOCATED" =>
         \/ /\ result.by = "plugin_cache"
            /\ \A d \in Cache!Documents : request.cache.doc[d] # "refused"
            /\ LET c == request.cache.says
               IN  ~c.dependency_install_failure
                   /\ c.measured = c.trusted => c.trusted # c.rebuild \/ c.trusted # c.expected
         \/ /\ result.by = "artifact" /\ request.artifact.status = "present"
            /\ request.artifact.blocks = 1
         \/ result.by = "config" /\ request.config = "fault"
    /\ "PROTECTED" \in result.asts => request.artifact.blocks = 1
    /\ \A h \in result.hashes : h[2] \in {request.cache.says.measured, request.artifact.sha}

(***************************************************************************)
(* An incident that cannot be read, and a file that may not be, end the    *)
(* diagnosis: nothing is claimed, not even by a later stage.               *)
(***************************************************************************)
RefusalsClaimNothing ==
  (result # None /\ ~result.ok) =>
    result.candidates = << >> /\ result.state = "INCONCLUSIVE" /\ result.hashes = {}

(***************************************************************************)
(* A crash family is a candidate only where it is known to occur, by a     *)
(* mark no other family shares, and against no observed mark of another:   *)
(* whatever the title says and whatever a model prefers.                   *)
(***************************************************************************)
MarksOf(e, m) ==
  {k \in {"exception", "module", "symbol", "offset", "gpu", "interaction", "page", "context"} :
     \/ k = "exception" /\ m.exception \in e.exceptions
     \/ k = "module" /\ m.module \in e.modules
     \/ k = "symbol" /\ m.symbol \in e.symbols
     \/ k = "offset" /\ m.offset \in e.offsets
     \/ k = "gpu" /\ m.gpuExit \in e.exits /\ m.gpuRelaunch \in e.relaunches
     \/ k = "interaction" /\ m.interaction \in e.interactions
          /\ \A o \in Catalog \ {e} : m.interaction \notin o.interactions
     \/ k = "page" /\ m.page \in e.pages /\ \A o \in Catalog \ {e} : m.page \notin o.pages
     \/ k = "context" /\ m.concurrency \in e.contexts
          /\ \A o \in Catalog \ {e} : m.concurrency \notin o.contexts}

CandidatesHaveMechanism ==
  (result # None /\ result.by = None) =>
    \A n \in DOMAIN result.candidates :
      LET e == CHOOSE x \in Catalog : x.issue = result.candidates[n]
          m == Meta(request.incident)
      IN  /\ request.incident.os = "windows"
          /\ request.incident.surface \in {"desktop", "browser_control"}
          /\ MarksOf(e, m) # {}
          /\ e.issue = "32094" => "gpu" \in MarksOf(e, m)
          /\ e.issue = "33762" => m.page = "complex_login"

(***************************************************************************)
(* A family is named only when it is the first and no other comes near,    *)
(* and believed with confidence only by two of its marks, or by one where  *)
(* the model prefers it (see PreferenceAddsThree: the comments of the code *)
(* allow a preference no such part).  Without a mark of any family there   *)
(* is nothing to name, and no active probe is planned on the user's        *)
(* profile.                                                                *)
(***************************************************************************)
ConfidenceIsEarned ==
  (result # None /\ result.by = None) =>
    LET m == Meta(request.incident)
    IN  /\ result.state \in {"HIGH_CONFIDENCE_MATCH", "ISSUE_CANDIDATE"} <=> result.family # None
        /\ result.family # None => result.family = result.candidates[1]
        /\ ~Structural(m) => result.candidates = << >>
        /\ m.probe /\ ~m.isolation => result.candidates = << >>
        /\ result.state = "HIGH_CONFIDENCE_MATCH" =>
             \E e \in Catalog :
               /\ e.issue = result.family /\ MarksOf(e, m) # {}
               /\ e.issue \notin request.preferred => Cardinality(MarksOf(e, m)) >= 2
        /\ result.user # "DIAGNOSIS_COMPLETE"

(***************************************************************************)
(* The model's preference moves no candidate past one it trails by more    *)
(* than the nudge.                                                         *)
(***************************************************************************)
PreferenceOnlyNudges ==
  (result # None /\ result.by = None) =>
    \A i, j \in DOMAIN result.candidates :
      i < j =>
        LET At(n) == Score(CHOOSE x \in Catalog : x.issue = result.candidates[n],
                           request.incident, {})
        IN  At(i) + 3 >= At(j)

(***************************************************************************)
(* What a preference can do to the thresholds.  The code says that it "may *)
(* only rerank surviving candidates" and "cannot ... invent score past     *)
(* gates", and ARCHITECTURE.md the same; but its three hundredths are in   *)
(* the score before either threshold, so that a preference makes a         *)
(* candidate of a family, and HIGH_CONFIDENCE of a candidate, that was up  *)
(* to three short.  It does no more: what is not preferred reaches each    *)
(* threshold by itself, and what is preferred is at most three short.      *)
(***************************************************************************)
Helped(issue) == IF issue \in request.preferred THEN 3 ELSE 0

PreferenceAddsThree ==
  (result # None /\ result.by = None) =>
    LET Own(n) == Score(CHOOSE x \in Catalog : x.issue = result.candidates[n],
                        request.incident, {})
        With(n) == Own(n) + Helped(result.candidates[n])
    IN  /\ \A n \in DOMAIN result.candidates : With(n) >= CandidateThreshold
        /\ result.state = "HIGH_CONFIDENCE_MATCH" => With(1) >= HighThreshold
=============================================================================
