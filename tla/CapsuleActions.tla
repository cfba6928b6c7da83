------------------------------ MODULE CapsuleActions ------------------------------
(***************************************************************************)
(* From a capsule to the remote (src/upstream/actions): the gate a capsule *)
(* must pass, the manifest of the action, the token that binds them, its   *)
(* confirmation and the fake remote of the harness.  The races for a token *)
(* are in UpstreamActions; here one call follows the other.                *)
(*                                                                         *)
(* A digest is what it is taken over.  An issue is a number, its address a *)
(* url, spelled as the tracker spells it or not, or an id.                 *)
(***************************************************************************)
EXTENDS UpstreamPreview

CONSTANTS
  Requests,     \* what is previewed, and what the host does with it
  Attachments,  \* attachment manifests a host presents
  MaxTokens     \* bound: tokens minted for a capsule

VARIABLES request, run, result

vars == << request, run, result >>

Kinds == {"create_issue", "comment_with_delta", "react_upvote", "subscribe", "attachment_upload"}

\* The tracker itself, and an issue that was just made.
Root     == 0
NewIssue == -1

-----------------------------------------------------------------------------
(***************************************************************************)
(* capsule-gate.ts                                                         *)
(***************************************************************************)
AllowedActions(recommendation) ==
  CASE recommendation \in {"open_new", "cross_link_related"} -> {"create_issue", "attachment_upload"}
    [] recommendation = "comment_with_delta"  -> {"comment_with_delta", "attachment_upload"}
    [] recommendation = "subscribe_or_upvote" -> {"react_upvote", "subscribe"}
    [] OTHER -> {}

\* The hash is recomputed from the edited file.
GateFailure_Rehashed(c, hash) ==
  IF c = None \/ c.status # "PREVIEW_READY" THEN "status"
  ELSE IF ~c.privacy.passed \/ c.failed # {} THEN "gate"
  ELSE IF AllowedActions(c.duplicate.recommendation) = {} THEN "recommendation"
  ELSE None

\* The first check that fails, by what it is about.
GateFailure(c, hash) ==
  CASE c = None                                            -> "shape"
    [] c # None /\ c.status # "PREVIEW_READY"              -> "status"
    [] c # None /\ c.status = "PREVIEW_READY" ->
         IF ~c.privacy.passed \/ c.privacy.flags # PrivacyFlags \/ c.privacy.quarantined THEN "privacy"
         ELSE IF c.failed # {} THEN "maintainer_gate"
         ELSE IF AllowedActions(c.duplicate.recommendation) = {} THEN "recommendation"
         ELSE IF hash # c THEN "content_hash"
         ELSE None

-----------------------------------------------------------------------------
(***************************************************************************)
(* manifest.ts                                                             *)
(***************************************************************************)
ManifestOk(a) ==
  /\ a.wellFormed
  /\ \A i \in DOMAIN a.entries : a.entries[i].privacy = PrivacyFlags
  /\ a.hash \in {None, a.entries}

\* An official url as it is spelled here, or else an official id.
MatchedIssue(candidate) ==
  CASE candidate = None -> None
    [] candidate # None /\ candidate.url # None /\ candidate.url.exact -> candidate.url.issue
    [] candidate # None /\ (candidate.url = None \/ ~candidate.url.exact) /\ candidate.official
         -> candidate.id
    [] OTHER -> None

\* The issues root, the matched issue, or none.
CanonicalTarget(action, c) ==
  LET issue == MatchedIssue(c.duplicate.matched)
  IN  CASE action = "create_issue"                         -> Root
        [] action = "attachment_upload" /\ issue = None    -> Root
        [] OTHER                                           -> issue

BodyFor(action, c) ==
  CASE action = "create_issue"       -> c.duplicate.body
    [] action = "comment_with_delta" -> c.duplicate.comment
    [] OTHER                         -> << >>

TitleFor(action, c) ==
  IF action = "create_issue" THEN c.duplicate.title ELSE None

-----------------------------------------------------------------------------
(***************************************************************************)
(* actions/preview.ts and idempotency.ts                                   *)
(***************************************************************************)
ParseAction(raw) == IF raw \in {"react", "upvote"} THEN "react_upvote" ELSE raw

IdempotencyKey(b) == [field \in {"target", "incident", "delta", "action", "body", "attachments"} |-> b[field]]

Bound(action, attachments) ==
  [action |-> action, target |-> CanonicalTarget(action, run.capsule),
   body |-> << TitleFor(action, run.capsule), BodyFor(action, run.capsule) >>,
   attachments |-> attachments, incident |-> request.incident, delta |-> request.delta,
   capsule |-> run.capsule]

ActionRefusal(raw, attachments) ==
  LET action == ParseAction(raw)
      gate == GateFailure(run.capsule, run.hash)
  IN  IF action \notin Kinds THEN "INVALID_ACTION"
      ELSE IF gate # None THEN IF gate = "privacy" THEN "PRIVACY_FAILED" ELSE "BLOCKED_CAPSULE"
      ELSE IF action \notin AllowedActions(run.capsule.duplicate.recommendation) THEN "UNSUPPORTED_ACTION"
      ELSE IF attachments # None /\ ~ManifestOk(attachments) THEN "MANIFEST"
      ELSE IF action = "attachment_upload" /\ (attachments = None \/ attachments.entries = << >>)
      THEN "ATTACHMENTS_REQUIRED"
      ELSE IF BodyFor(action, run.capsule) = None THEN "MISSING_BODY"
      ELSE IF CanonicalTarget(action, run.capsule) = None THEN "MISSING_TARGET"
      ELSE None

-----------------------------------------------------------------------------
(***************************************************************************)
(* fake-remote.ts and adapter.ts: what the remote has, by key, and how it  *)
(* answers in each mode.                                                   *)
(***************************************************************************)
Modes == {"none", "success", "auth_unavailable", "timeout_found", "timeout_not_found",
          "timeout_uncertain", "duplicate_existing", "failed"}

Has(store, key) == key \in DOMAIN store

Stored(store, key, receipt) ==
  [k \in (DOMAIN store) \cup {key} |-> IF k = key THEN receipt ELSE store[k]]

Receipt(b, target) == [key |-> IdempotencyKey(b), action |-> b.action, target |-> target]

\* What is stored is not looked at.
Execute_Blind(mode, store, b) ==
  [outcome |-> IF mode = "success" THEN "success" ELSE "failed",
   store |-> Stored(store, IdempotencyKey(b), Receipt(b, b.target))]

\* execute: its outcome, and the store after it.
Execute(mode, store, b) ==
  LET key  == IdempotencyKey(b)
      Made == Receipt(b, IF b.action = "create_issue" /\ mode = "success" THEN NewIssue ELSE b.target)
      seen == Has(store, key)
  IN  CASE mode = "success" /\ ~seen -> [outcome |-> "success", store |-> Stored(store, key, Made)]
        [] mode = "duplicate_existing" /\ ~seen
             -> [outcome |-> "duplicate_existing", store |-> Stored(store, key, Made)]
        [] mode \in {"success", "duplicate_existing"} /\ seen
             -> [outcome |-> "duplicate_existing", store |-> store]
        [] mode = "failed" -> [outcome |-> "failed", store |-> store]
        [] OTHER -> [outcome |-> "timeout_ambiguous", store |-> store]

\* queryByIdempotencyKey: in one mode it makes up what it does not have.
Query(mode, store, key) ==
  IF mode # "timeout_found" THEN store
  ELSE IF Has(store, key) THEN store
  ELSE Stored(store, key, [key |-> key, action |-> "create_issue", target |-> NewIssue])

\* A list of forms, and one that has what every surface needs.
Listing(forms) == Len(forms) \in Nat /\ DOMAIN forms = 1..Len(forms)

Complete(forms) ==
  /\ Listing(forms) /\ \A i \in DOMAIN forms : forms[i].safe
  /\ BugRoles \subseteq {forms[i].role : i \in DOMAIN forms}

\* What None is told apart from.
Words ==
  {"shape", "status", "privacy", "maintainer_gate", "recommendation", "content_hash", "INVALID_ACTION",
   "PRIVACY_FAILED", "BLOCKED_CAPSULE", "UNSUPPORTED_ACTION", "MANIFEST", "ATTACHMENTS_REQUIRED",
   "MISSING_BODY", "MISSING_TARGET", "consumed", "terminal_uncertain"}

\* What the proofs assume of the requests and of the forms that ship.
SoundSubmissions ==
  /\ None \notin Words /\ None # Root /\ None # << >>
  /\ MaxSkew \in Int /\ FreshDays \in Int /\ Bundled.fetched \in Int /\ Complete(Bundled.forms)
  /\ \A r \in Requests :
       /\ r.kind \in {"codex_product_bug", "product_support_question",
                      "validated_security_vulnerability", "account_billing_private"}
       /\ DOMAIN r.candidates \subseteq Nat /\ \A i \in DOMAIN r.candidates : r.candidates[i] # None
       /\ r.now \in Int /\ (r.doctor # None => \A e \in r.doctor.keys : e.depth \in Int)
       /\ r.transport # None /\ r.transport.answers =>
            r.transport.snapshot.fetched \in Int /\ Listing(r.transport.snapshot.forms)

-----------------------------------------------------------------------------
Init ==
  /\ request \in Requests
  /\ run = [capsule |-> None, hash |-> None, tokens |-> << >>, remote |-> << >>, written |-> << >>]
  /\ result = None

Preview ==
  /\ result = None
  /\ result' = PreviewUpstream(request)
  /\ run' = [run EXCEPT !.capsule = PreviewUpstream(request).capsule,
                        !.hash = PreviewUpstream(request).capsule]
  /\ UNCHANGED request

\* The file the capsule is kept in is edited; its hash stays as it was.
Edit ==
  /\ request.host = "acts" /\ run.capsule # None /\ run.capsule = run.hash /\ run.tokens = << >>
  /\ \E edited \in {[run.capsule EXCEPT !.status = "PREVIEW_READY", !.failed = {}],
                    [run.capsule EXCEPT !.duplicate.recommendation = "open_new"],
                    [run.capsule EXCEPT !.privacy = [passed |-> TRUE, flags |-> PrivacyFlags,
                                                     quarantined |-> FALSE]]} :
       edited # run.capsule /\ run' = [run EXCEPT !.capsule = edited]
  /\ UNCHANGED << request, result >>

\* previewUpstreamAction; the nonce is registered before the token is told.
PreviewAction ==
  /\ request.host = "acts" /\ result # None /\ Len(run.tokens) < MaxTokens
  /\ \E raw \in Kinds \cup {"upvote", "delete"}, attachments \in Attachments \cup {None} :
       LET refusal == ActionRefusal(raw, attachments)
       IN  /\ result' = [action |-> ParseAction(raw), attachments |-> attachments, refusal |-> refusal]
           /\ IF refusal # None THEN UNCHANGED run
              ELSE LET binding == Bound(ParseAction(raw), attachments)
                   IN  run' = [run EXCEPT !.tokens =
                                 Append(@, [binding |-> binding, mac |-> binding,
                                            status |-> "registered"])]
  /\ UNCHANGED request

\* What an outcome makes of the entry in the ledger.
SettledAs(status) ==
  CASE status \in {"EXECUTED", "DUPLICATE_EXISTING", "CANCELLED"} -> "consumed"
    [] status \in {"UNCERTAIN_NO_RETRY", "FAILED"}                -> "terminal_uncertain"
    [] OTHER                                                      -> None

\* parseConfirmationToken: the token presented is the one that was minted.
Genuine(token, presented) == token.mac = presented

\* revalidateConfirmationBinding
Revalidated(b) == b.target # None /\ (b.attachments # None => ManifestOk(b.attachments))

ConfirmStatus(token, presented, decision, mode) ==
  LET outcome == Execute(mode, run.remote, presented).outcome
  IN  CASE ~Genuine(token, presented) -> "INVALID_CONFIRMATION"
        [] Genuine(token, presented) /\ token.status # "registered" -> "REPLAYED_CONFIRMATION"
        [] Genuine(token, presented) /\ token.status = "registered" ->
             IF ~Revalidated(presented) THEN "INVALID_CONFIRMATION"
             ELSE IF decision = "cancel" THEN "CANCELLED"
             ELSE IF mode \in {"none", "auth_unavailable"} THEN "ADAPTER_UNAVAILABLE"
             ELSE CASE outcome = "success" -> "EXECUTED"
                    [] outcome = "duplicate_existing" -> "DUPLICATE_EXISTING"
                    [] outcome = "failed" -> "FAILED"
                    [] OTHER -> IF mode = "timeout_found" THEN "DUPLICATE_EXISTING"
                                ELSE "UNCERTAIN_NO_RETRY"

\* confirmUpstreamAction, with the token as it was minted or for another target.
Confirm ==
  /\ result # None
  /\ \E t \in DOMAIN run.tokens, decision \in {"confirm", "cancel"}, mode \in Modes :
       LET token == run.tokens[t]
       IN  /\ decision = "cancel" => mode = "none"
           /\ \E presented \in {token.binding, [token.binding EXCEPT !.target = Root]} :
             LET status   == ConfirmStatus(token, presented, decision, mode)
                 asked    == status \in {"EXECUTED", "DUPLICATE_EXISTING", "FAILED", "UNCERTAIN_NO_RETRY"}
                 executed == Execute(mode, run.remote, presented)
                 key      == IdempotencyKey(presented)
                 remote   == IF ~asked THEN run.remote
                             ELSE IF executed.outcome = "timeout_ambiguous"
                             THEN Query(mode, executed.store, key)
                             ELSE executed.store
             IN  /\ run' = [run EXCEPT
                       !.remote = remote,
                       !.written = IF status = "EXECUTED" THEN Append(@, presented) ELSE @,
                       !.tokens[t].status = IF SettledAs(status) = None THEN @ ELSE SettledAs(status)]
                 /\ result' = [confirmed |-> t, status |-> status,
                               receipt |-> IF status \in {"EXECUTED", "DUPLICATE_EXISTING"}
                                           THEN remote[key] ELSE None]
  /\ UNCHANGED request

Next == Preview \/ Edit \/ PreviewAction \/ Confirm

-----------------------------------------------------------------------------
IsPreview == result # None /\ DOMAIN result = {"ok", "capsule", "network_used"}
IsAction  == result # None /\ "refusal" \in DOMAIN result

\* Which candidates are the same problem, not only the same symptom.
SameProblem == {i \in DOMAIN request.candidates :
                  request.candidates[i].similarity = "exact" /\ request.candidates[i].mechanism_match}

NewEvidence == \E i \in DOMAIN request.delta : request.delta[i]

(***************************************************************************)
(* "Security must never render a public Issue draft", and neither does an  *)
(* account matter, a request that carries instructions, one whose privacy  *)
(* review is not complete in the request itself, or one that says nothing  *)
(* a maintainer did not have: what can be submitted was worth it.          *)
(***************************************************************************)
DraftsAreEarned ==
  IsPreview /\ result.capsule # None =>
    LET d == result.capsule.duplicate
        public == d.body # None \/ d.comment # None \/ d.title # None \/ d.links # {}
                    \/ result.capsule.labels # {}
    IN  /\ public => /\ result.ok /\ ~Injected(request) /\ request.privacy = PrivacyFlags
                     /\ request.kind \in {"codex_product_bug", "product_support_question"}
                     /\ "technical_signals" \in request.given
        /\ public /\ request.kind = "codex_product_bug" =>
             /\ request.searched /\ request.surface # "unknown"
             /\ SameProblem # {} => NewEvidence /\ d.comment # None /\ d.body = None
        /\ result.capsule.status = "PREVIEW_READY" /\ request.kind = "codex_product_bug"
             /\ (SameProblem = {} \/ NewEvidence) => public

\* What of a capsule is text, but for the id of the issue it matched.
TextsOf(c) ==
  {c.lists} \cup ({c.duplicate.body, c.duplicate.comment, c.duplicate.title} \ {None})

(***************************************************************************)
(* "No raw injection prose in export": no text of a capsule reads as an    *)
(* instruction, whichever field it came in, and the doctor report that     *)
(* carries one is not included.                                            *)
(***************************************************************************)
NoInstructionsOut ==
  IsPreview /\ result.capsule # None =>
    /\ \A texts \in TextsOf(result.capsule) : "instruction" \notin Range(texts)
    /\ request.injected = "doctor" => result.capsule.doctor = {}

(***************************************************************************)
(* "Sensitive keys are rejected recursively, never silently dropped", at   *)
(* whatever depth a value can still be exported.                           *)
(***************************************************************************)
NoSensitiveDoctor ==
  IsPreview /\ result.capsule # None => \A e \in result.capsule.doctor : e.name # "sensitive"

(***************************************************************************)
(* The forms are fetched only after an approved disclosure, and a fetch    *)
(* that fails, is not intact or comes from the future changes nothing: the *)
(* form named is one of a snapshot that has each role once.                *)
(***************************************************************************)
FormsAreOfficial ==
  IsPreview =>
    /\ result.network_used => request.decision = "approved" /\ request.transport # None
    /\ result.capsule # None =>
         LET fetched == result.capsule.snapshot.source = "transport_refresh"
             used == IF fetched THEN request.transport.snapshot ELSE Bundled
         IN  /\ fetched => result.network_used /\ used.integrity = Material(used)
             /\ fetched => used.fetched <= request.now + MaxSkew
             /\ result.capsule.snapshot.fresh => request.now - used.fetched <= FreshDays
             /\ result.capsule.form # None =>
                  \E i \in DOMAIN used.forms :
                    used.forms[i].filename = result.capsule.form /\ used.forms[i].safe

(***************************************************************************)
(* "Only capsules with valid integrity, status, privacy gate and           *)
(* recommendation may become actions": a token is for a capsule as it was  *)
(* previewed, an issue is made only where none has the problem, a comment  *)
(* brings new evidence to one that has, a reaction brings none, and what   *)
(* is attached was reviewed.                                               *)
(***************************************************************************)
TokensAreEarned ==
  LET previewed == PreviewUpstream(request)
  IN \A t \in DOMAIN run.tokens :
    LET b == run.tokens[t].binding
        issues == {request.candidates[i].id : i \in SameProblem}
                    \cup {request.candidates[i].url.issue :
                            i \in {j \in SameProblem : request.candidates[j].url # None}}
    IN  /\ b.capsule = previewed.capsule /\ previewed.ok
        /\ request.kind = "codex_product_bug"
        /\ b.action = "create_issue" => SameProblem = {} /\ b.target = Root /\ b.body[2] # << >>
        /\ b.action = "comment_with_delta" => b.target \in issues /\ NewEvidence
        /\ b.action \in {"react_upvote", "subscribe"} =>
             b.target \in issues /\ ~NewEvidence /\ b.body = << None, << >> >>
        /\ b.attachments # None =>
             \A i \in DOMAIN b.attachments.entries : b.attachments.entries[i].privacy = PrivacyFlags

\* What a capsule of use can do.
Fitting(action, attachments) ==
  /\ action \in AllowedActions(run.capsule.duplicate.recommendation)
  /\ attachments # None => ManifestOk(attachments)
  /\ action = "attachment_upload" => attachments # None /\ attachments.entries # << >>
  /\ run.capsule.duplicate.matched # None => MatchedIssue(run.capsule.duplicate.matched) # None

(***************************************************************************)
(* A ready capsule is of use: what its recommendation allows can be        *)
(* previewed, if the issue it matched has an address and attachments are   *)
(* as they should be.                                                      *)
(***************************************************************************)
ReadyIsUsable ==
  (/\ IsAction /\ run.capsule # None /\ run.capsule = run.hash
   /\ run.capsule.status = "PREVIEW_READY" /\ Fitting(result.action, result.attachments))
  => result.refusal = None

(***************************************************************************)
(* "Exact same diagnosis/action/content cannot execute twice", though two  *)
(* previews of it mint two tokens; and what is told of the remote is what  *)
(* it has under the key of what was confirmed.                             *)
(***************************************************************************)
OneEffectEach ==
  /\ \A i, j \in DOMAIN run.written :
       i # j => IdempotencyKey(run.written[i]) # IdempotencyKey(run.written[j])
  /\ \A i \in DOMAIN run.written : \E t \in DOMAIN run.tokens :
       run.tokens[t].binding = run.written[i] /\ run.tokens[t].status = "consumed"
  /\ result # None /\ "receipt" \in DOMAIN result =>
       LET key == IdempotencyKey(run.tokens[result.confirmed].binding)
       IN  /\ result.receipt # None => run.remote[key] = result.receipt /\ result.receipt.key = key
           /\ result.status = "EXECUTED" => result.receipt.action = key["action"]
================================================================================
