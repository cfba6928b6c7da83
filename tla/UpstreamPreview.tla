----------------------------- MODULE UpstreamPreview -----------------------------
(***************************************************************************)
(* The upstream preview (src/upstream): a request that describes a problem *)
(* is parsed, quarantined if it carries instructions, routed to a channel, *)
(* compared with the issues that were found, measured against the          *)
(* maintainer-value gate and exported as a submission capsule.             *)
(*                                                                         *)
(* A text is the field it is in and what it holds: what the user wrote,    *)
(* what reads as an instruction, or the quarantine placeholder.  A draft   *)
(* is the texts it is made of.  Redaction and clipping are left out.       *)
(***************************************************************************)
EXTENDS Integers, Sequences, FiniteSets, FiniteSetsExt, Functions

CONSTANTS
  Bundled,        \* the form snapshot that ships with the program
  FreshDays,      \* FORM_SNAPSHOT_FRESH_MS
  MaxSkew,        \* FORM_SNAPSHOT_MAX_FUTURE_SKEW_MS
  MaxDoctorKeys,  \* MAX_DOCTOR_KEYS
  None

PrivacyFlags == {"secrets_redacted", "paths_redacted", "session_excluded"}
BugRoles     == {"APP", "CLI", "EXTENSION", "OTHER"}

-----------------------------------------------------------------------------
(***************************************************************************)
(* request.ts: the codes the parser of a field can refuse it with, in the  *)
(* order it looks, and the fields in the order they are parsed.            *)
(***************************************************************************)
ObjectCodes == << "FORBIDDEN_PRIVACY_FIELD", "EXTRA_FIELD" >>
StringCodes == << "INVALID_STRING", "STRING_LIMIT" >>
ArrayCodes  == << "MISSING_FIELD", "INVALID_ARRAY", "ARRAY_LIMIT" >> \o StringCodes

PlatformCodes == << "INVALID_PLATFORM" >> \o ObjectCodes \o StringCodes

ReproductionCodes ==
  << "INVALID_REPRODUCTION" >> \o ObjectCodes
    \o << "INVALID_REPRO_QUALITY", "INVALID_STEPS", "STEPS_LIMIT" >> \o StringCodes

CandidateCodes ==
  << "INVALID_CANDIDATE" >> \o ObjectCodes \o StringCodes
    \o << "INVALID_CANDIDATE_STATE", "INVALID_SIMILARITY", "INVALID_MECHANISM_MATCH",
          "INVALID_CANDIDATE_URL", "CANDIDATE_URL_REFUSED" >>

SearchCodes ==
  << "INVALID_DUPLICATE_SEARCH" >> \o ObjectCodes
    \o << "INVALID_SEARCHED", "INVALID_CANDIDATES", "CANDIDATES_LIMIT" >> \o CandidateCodes

DeltaCodes ==
  << "INVALID_EVIDENCE_DELTA" >> \o ObjectCodes
    \o << "INVALID_DELTA_ITEMS", "DELTA_LIMIT", "INVALID_DELTA_ITEM",
          "INVALID_DELTA_MATERIAL", "INVALID_DELTA_KIND" >> \o StringCodes

PrivacyCodes == << "INVALID_PRIVACY" >> \o ObjectCodes

Fields ==
  << << "envelope", << "SERIALIZE", "SIZE_LIMIT", "MALFORMED_JSON", "INVALID_ROOT" >> \o ObjectCodes
                    \o << "SCHEMA", "DOCTOR_SERIALIZE", "DOCTOR_SIZE" >> >>,
     << "case_kind", << "INVALID_CASE_KIND" >> >>, << "surface", << "INVALID_SURFACE" >> >>,
     << "platform", PlatformCodes >>, << "codex_version", StringCodes >>,
     << "version_unknown_reason", StringCodes >>, << "actual_behavior", StringCodes >>,
     << "technical_signals", ArrayCodes >>, << "reproduction", ReproductionCodes >>,
     << "observed_facts", ArrayCodes >>, << "user_reports", Tail(ArrayCodes) >>,
     << "hypotheses", Tail(ArrayCodes) >>, << "duplicate_search", SearchCodes >>,
     << "evidence_delta", DeltaCodes >>, << "privacy_review", PrivacyCodes >>,
     << "error_strings", Tail(ArrayCodes) >>, << "command_strings", Tail(ArrayCodes) >> >>

\* What is wrong with the request, a set of codes by field, as it is told.
Refusal(r) ==
  LET f == CHOOSE i \in DOMAIN Fields :
             /\ Fields[i][1] \in DOMAIN r.defects
             /\ \A j \in 1..(i - 1) : Fields[j][1] \notin DOMAIN r.defects
      codes == Fields[f][2]
      n == CHOOSE i \in DOMAIN codes :
             /\ codes[i] \in r.defects[Fields[f][1]]
             /\ \A j \in 1..(i - 1) : codes[j] \notin r.defects[Fields[f][1]]
  IN  IF DOMAIN r.defects = {} THEN None ELSE codes[n]

-----------------------------------------------------------------------------
(***************************************************************************)
(* Texts.  A platform that is not given has a reason of the parser's own.  *)
(***************************************************************************)
PlatformTexts == {"os", "arch", "unknown_reason"}

TextFields(r) ==
  {"actual_behavior"} \cup (r.given \ (IF r.platform THEN {} ELSE PlatformTexts))
    \cup (IF r.platform THEN {} ELSE {"unknown_reason"})
    \cup (IF r.delta = << >> THEN {} ELSE {"delta"})

Texts(r) ==
  [f \in TextFields(r) |->
     IF f = r.injected /\ (r.platform \/ f \notin PlatformTexts) THEN "instruction" ELSE "written"]

(***************************************************************************)
(* collectRawUserStrings with the scan: every text is looked at, also the  *)
(* ids and titles of candidates and the values of the doctor report, which *)
(* are followed to a depth of six.                                         *)
(***************************************************************************)
Injected(r) ==
  \/ "instruction" \in Range(Texts(r))
  \/ r.injected \in {"issue_id", "title"} /\ r.candidates # << >>
  \/ r.injected = "doctor" /\ r.doctor # None /\ \E e \in r.doctor.keys : e.depth + 1 <= 6

\* quarantineRequestFreeText
Quarantined(texts) == [f \in (DOMAIN texts) \ {"error_strings", "command_strings"} |-> "placeholder"]

-----------------------------------------------------------------------------
(***************************************************************************)
(* doctor.ts.  A key has a name, the depth of the object it is in, and the *)
(* top-level key above it, itself if the depth is 0.  Listed names are the *)
(* allowlist, sensitive ones match SENSITIVE_KEY_RE or are forbidden.      *)
(***************************************************************************)
\* Only the keys of the report itself are looked at.
SensitiveFound_Top(e) == e.name = "sensitive" /\ e.depth = 0

\* Checked from the root, and once more from the value of each listed key.
SensitiveFound(e) ==
  e.name = "sensitive" /\ (e.depth <= 6 \/ (e.top = "listed" /\ e.depth <= 7))

NoDoctor(reason) == [error |-> None, included |-> {}, refused |-> {reason}, redacted |-> {}]
DoctorError(code) == [NoDoctor(None) EXCEPT !.error = code]

\* Values below a depth of four are truncated.
SanitizeDoctor(doctor) ==
  LET kept == {e \in doctor.keys : e.top = "listed" /\ e.depth <= 5}
  IN  IF doctor = None THEN NoDoctor("doctor_json_not_provided")
      ELSE IF doctor.shape # "object" THEN DoctorError("DOCTOR_SHAPE")
      ELSE IF \E e \in doctor.keys : SensitiveFound(e) THEN DoctorError("DOCTOR_FORBIDDEN_KEY")
      ELSE IF Cardinality({e \in doctor.keys : e.depth = 0}) > MaxDoctorKeys THEN DoctorError("DOCTOR_KEY_LIMIT")
      ELSE IF ~\E e \in doctor.keys : e.top = "listed"
      THEN [NoDoctor("no_allowlisted_doctor_fields") EXCEPT !.redacted = doctor.redacted]
      ELSE [error |-> None, included |-> kept, refused |-> {}, redacted |-> doctor.redacted]

-----------------------------------------------------------------------------
(***************************************************************************)
(* routing.ts and form-snapshot.ts.  The integrity hash of a snapshot is   *)
(* what it was taken over.                                                 *)
(***************************************************************************)
RouteUpstream(kind) ==
  CASE kind = "validated_security_vulnerability" -> "BUGCROWD"
    [] kind = "account_billing_private"          -> "OPENAI_SUPPORT"
    [] kind = "product_support_question"         -> "GITHUB_DISCUSSIONS"
    [] OTHER                                     -> "GITHUB_ISSUE"

FormRole(surface) ==
  CASE surface \in {"app", "desktop"}                      -> "APP"
    [] surface = "cli"                                     -> "CLI"
    [] surface \in {"extension", "ide", "browser_control"} -> "EXTENSION"
    [] OTHER                                               -> "OTHER"

Material(s) == << s.fetched, s.forms >>

\* validateOfficialFormSnapshot: which forms and dates it accepts.
ValidSnapshot(s, now) ==
  LET bug == {i \in DOMAIN s.forms : s.forms[i].role \in BugRoles}
  IN  /\ s.wellFormed
      /\ s.fetched <= now + MaxSkew
      /\ \A i \in DOMAIN s.forms : s.forms[i].safe
      /\ \A i, j \in DOMAIN s.forms : i # j => s.forms[i].filename # s.forms[j].filename
      /\ \A i, j \in bug : i # j => s.forms[i].role # s.forms[j].role
      /\ {s.forms[i].role : i \in bug} = BugRoles
      /\ s.integrity = Material(s)

FilenameFor(s, role) ==
  s.forms[CHOOSE i \in DOMAIN s.forms :
            s.forms[i].role = role /\ \A j \in 1..(i - 1) : s.forms[j].role # role].filename

FormTransportPermitted(r) == r.decision = "approved" /\ r.transport # None

\* The snapshot in use and whether it was fetched.
Snapshot(r) ==
  IF FormTransportPermitted(r) /\ r.transport.answers /\ ValidSnapshot(r.transport.snapshot, r.now)
  THEN [source |-> "transport_refresh", of |-> r.transport.snapshot]
  ELSE [source |-> "bundled_immutable", of |-> Bundled]

Fresh(s, now) == Max({0, now - s.fetched}) <= FreshDays

-----------------------------------------------------------------------------
(***************************************************************************)
(* duplicate.ts                                                            *)
(***************************************************************************)
\* The part of a text that is in S.
Only(texts, S) == [f \in (DOMAIN texts) \cap S |-> texts[f]]

VersionText(texts) ==
  IF "codex_version" \in DOMAIN texts THEN "codex_version" ELSE "version_unknown_reason"

IssueBody(texts) ==
  Only(texts, {"observed_facts", "actual_behavior", "technical_signals", "marker", "steps",
                    "error_strings", "command_strings", "user_reports", "hypotheses",
                    VersionText(texts)} \cup PlatformTexts)

DeltaComment(texts) ==
  Only(texts, {"delta", "os", "arch", "error_strings", VersionText(texts)})

DraftTitle(texts) ==
  Only(texts, {IF "error_strings" \in DOMAIN texts THEN "error_strings" ELSE "actual_behavior"})

\* The same symptom is taken for the same problem.
PickBestExact_Symptom(candidates) == {i \in DOMAIN candidates : candidates[i].similarity = "exact"}

PickBestExact(candidates) ==
  {i \in DOMAIN candidates : candidates[i].similarity = "exact" /\ candidates[i].mechanism_match}

PickRelated(candidates) ==
  {i \in DOMAIN candidates :
     \/ candidates[i].similarity = "related"
     \/ candidates[i].similarity = "exact" /\ ~candidates[i].mechanism_match}

\* Not a duplicate of anything; no draft.
NewIncident(material, recommendation) ==
  [state |-> "NEW_INCIDENT", matched |-> None, material |-> material,
   recommendation |-> recommendation, body |-> None, comment |-> None, links |-> {}, title |-> None]

Drafted(a, texts) == [a EXCEPT !.body = IssueBody(texts), !.title = DraftTitle(texts)]

AssessDuplicate(r, texts) ==
  LET route    == RouteUpstream(r.kind)
      exact    == PickBestExact(r.candidates)
      related  == PickRelated(r.candidates)
      links    == {r.candidates[i].id : i \in related}
      material == \E i \in DOMAIN r.delta : r.delta[i]
      Matching(state, S, recommendation) ==
        [NewIncident(material, recommendation) EXCEPT !.state = state, !.matched = r.candidates[Min(S)]]
  IN  CASE route = "BUGCROWD"           -> NewIncident(material, "private_report")
        [] route = "OPENAI_SUPPORT"     -> NewIncident(FALSE, "contact_support")
        [] route = "GITHUB_DISCUSSIONS" -> Drafted(NewIncident(material, "open_discussion"), texts)
        [] route = "GITHUB_ISSUE" /\ (~r.searched \/ exact \cup related = {})
             -> Drafted(NewIncident(material, "open_new"), texts)
        [] route = "GITHUB_ISSUE" /\ r.searched /\ exact # {} /\ ~material
             -> Matching("EXACT_DUPLICATE", exact, "subscribe_or_upvote")
        [] route = "GITHUB_ISSUE" /\ r.searched /\ exact # {} /\ material
             -> [Matching("EXACT_DUPLICATE", exact, "comment_with_delta")
                   EXCEPT !.comment = DeltaComment(texts), !.links = links]
        [] OTHER
             -> [Drafted(Matching("RELATED_NOT_SAME", related, "cross_link_related"), texts)
                   EXCEPT !.links = links]

-----------------------------------------------------------------------------
(***************************************************************************)
(* maintainer-gate.ts: the checks that fail.                               *)
(***************************************************************************)
ReproductionOk(r, texts) == r.quality \in {"reliable", "once"} \/ "marker" \in DOMAIN texts

MaterialValue(route, a) ==
  \/ route # "GITHUB_ISSUE"
  \/ a.state = "EXACT_DUPLICATE" /\ (~a.material \/ a.comment # None)
  \/ a.state = "RELATED_NOT_SAME" /\ a.body # None /\ a.links # {}
  \/ a.state = "NEW_INCIDENT" /\ a.body # None

FailedChecks(r, texts, assessed, doctor, privacy) ==
  LET route == RouteUpstream(r.kind)
      has == DOMAIN texts
      checks ==
        [duplicate_search     |-> route # "GITHUB_ISSUE" \/ r.searched,
         surface              |-> route # "GITHUB_ISSUE" \/ r.surface # "unknown",
         platform_version     |-> /\ {"os", "unknown_reason"} \cap has # {}
                                  /\ {"codex_version", "version_unknown_reason"} \cap has # {},
         actual_behavior      |-> ~r.blank \/ texts["actual_behavior"] = "placeholder",
         technical_signal     |-> "technical_signals" \in has,
         baseline_diagnostics |-> doctor.included # {} \/ doctor.refused # {},
         privacy_review       |-> privacy,
         reproduction_quality |-> ReproductionOk(r, texts),
         material_value       |-> MaterialValue(route, assessed)]
  IN  {c \in DOMAIN checks : ~checks[c]}

-----------------------------------------------------------------------------
(***************************************************************************)
(* preview.ts                                                              *)
(***************************************************************************)
\* What was redacted in the doctor report counts for the request.
PrivacyPassed_Lifted(r, doctor) == ~Injected(r) /\ r.privacy \cup doctor.redacted = PrivacyFlags

PrivacyPassed(r, doctor) == ~Injected(r) /\ r.privacy = PrivacyFlags

\* applyCapsuleExportInvariant
Exported(status, route, a) ==
  LET bare == [a EXCEPT !.body = None, !.comment = None, !.links = {}, !.title = None]
  IN  CASE status \in {"PREVIEW_BLOCKED", "GATE_FAILED"} -> [bare EXCEPT !.recommendation = "blocked"]
        [] status = "ROUTED_PRIVATE" -> [bare EXCEPT !.recommendation = "private_report"]
        [] a.recommendation = "subscribe_or_upvote" -> bare
        [] OTHER -> a

Labels(status, route, a) ==
  IF status = "PREVIEW_READY" /\ route = "GITHUB_ISSUE" /\ a.state = "NEW_INCIDENT"
  THEN {"bug", "changeguard-preview"} ELSE {}

Listed == {"observed_facts", "user_reports", "hypotheses", "error_strings", "command_strings"}

NoCapsule == [ok |-> FALSE, capsule |-> None, network_used |-> FALSE]

\* previewUpstream once the request and the doctor report are accepted.
Capsule(r, doctor) ==
  LET texts    == IF Injected(r) THEN Quarantined(Texts(r)) ELSE Texts(r)
      route    == RouteUpstream(r.kind)
      assessed == AssessDuplicate(r, texts)
      forGate  == IF Injected(r) THEN [assessed EXCEPT !.body = None, !.comment = None, !.links = {}]
                  ELSE assessed
      failed   == FailedChecks(r, texts, forGate, doctor, PrivacyPassed(r, doctor))
      status   == CASE Injected(r) -> "PREVIEW_BLOCKED"
                    [] ~Injected(r) /\ failed # {} -> "GATE_FAILED"
                    [] ~Injected(r) /\ failed = {} /\ route = "BUGCROWD" -> "ROUTED_PRIVATE"
                    [] OTHER -> "PREVIEW_READY"
      snapshot == Snapshot(r)
  IN  [status |-> status, route |-> route, failed |-> failed,
       form |-> IF route = "GITHUB_ISSUE" THEN FilenameFor(snapshot.of, FormRole(r.surface)) ELSE None,
       snapshot |-> [source |-> snapshot.source, fresh |-> Fresh(snapshot.of, r.now)],
       duplicate |-> Exported(status, route, assessed), labels |-> Labels(status, route, assessed),
       doctor |-> doctor.included,
       privacy |-> [passed |-> PrivacyPassed(r, doctor), flags |-> r.privacy, quarantined |-> Injected(r)],
       lists |-> Only(texts, IF status = "GATE_FAILED" THEN {} ELSE Listed)]

PreviewUpstream(r) ==
  LET doctor == IF Injected(r) THEN NoDoctor("injection_quarantined") ELSE SanitizeDoctor(r.doctor)
      capsule == Capsule(r, doctor)
  IN  IF Refusal(r) # None \/ doctor.error # None THEN NoCapsule
      ELSE [ok |-> capsule.status \in {"PREVIEW_READY", "ROUTED_PRIVATE"}, capsule |-> capsule,
            network_used |-> FormTransportPermitted(r)]
================================================================================
