-------------------------- MODULE OfficialEvidence --------------------------
(***************************************************************************)
(* Official evidence (src/evidence): what is disclosed to the injected     *)
(* transport, what becomes of its answer, the bundled snapshot every       *)
(* failure falls back to, and the bundled item that alone may stand for    *)
(* an upstream fix.                                                        *)
(*                                                                         *)
(* A hash is the material it is taken over.  A time is a small number      *)
(* (the thresholds are constants), a text that matches an instruction      *)
(* pattern is the prose "instruction".                                     *)
(***************************************************************************)
EXTENDS Naturals, Sequences

CONSTANTS
  Lists,            \* lists of raw items: a transport's answer, a bundle's content
  LocalFields,      \* names of the local context
  Versions,         \* candidate versions that may be asked for
  Times, Now,
  Skew, Low, Medium, High,   \* limits.ts, in units of these times
  MaxItems,
  None

VARIABLES
  request,  \* what was asked, and the world it is asked in
  result    \* what was answered

vars == << request, result >>

Kinds    == {"doc", "release", "tag", "diff", "issue", "pr", "commit"}
FixKinds == {"release", "tag", "commit", "pr", "diff"}

-----------------------------------------------------------------------------
(***************************************************************************)
(* Disclosure.  A local value is sent only if it is a sendable token; the  *)
(* others are left out, in the manifest and in the request alike.          *)
(***************************************************************************)
Allowlists == {"disclosure_manifest_id", "allowed_hosts", "allowed_repositories",
               "resource_kinds"}
DeviceOnly == {"absolute_paths", "tokens_and_secrets", "raw_logs_and_sessions",
               "source_and_project_contents"}

\* sanitizeSendableLocalFields, isSendableDisclosureToken
Sendable(context) == {f \in LocalFields : context[f] = "token"}

\* buildDisclosureManifest
Manifest(context) == Allowlists \cup Sendable(context) \cup DeviceOnly

\* Mutant: what is present is sent, whether it is a token or a text.
TransportRequest_Present(context) ==
  Allowlists \cup {f \in LocalFields : context[f] # "absent"}

\* buildTransportRequest: the keys it sends.
TransportRequest(context) == Allowlists \cup Sendable(context)

-----------------------------------------------------------------------------
(***************************************************************************)
(* assertEvidenceKind and assertOfficialUrl, and normalizeRawItem: the     *)
(* origin is derived from the URL, instruction-like prose is replaced by   *)
(* its quarantine record, and the hash covers what is kept.                *)
(***************************************************************************)
Allowed(raw) ==
  raw.kind \in Kinds /\ raw.official /\ raw.origin_matches /\ raw.structured # "malformed"

Material(item) ==
  << item.kind, item.url, item.structured, item.to, item.status, item.quarantined, item.state >>

Sealed(item) == item.hash = Material(item)

Seal(item) == [item EXCEPT !.hash = Material(item)]

DefaultStatus(raw) ==
  IF raw.status # "none" THEN raw.status
  ELSE IF raw.kind \in {"issue", "pr"} THEN "user_reported" ELSE "official"

Normalize(raw, state) ==
  Seal([kind |-> raw.kind, url |-> raw.url, structured |-> raw.structured, to |-> raw.to,
        status |-> DefaultStatus(raw), quarantined |-> raw.prose = "instruction",
        state |-> state, hash |-> None])

Normalized(list, state) == [n \in DOMAIN list |-> Normalize(list[n], state)]

\* normalizeRawItems: one refused item refuses the answer.
Acceptable(list) == Len(list) <= MaxItems /\ \A n \in DOMAIN list : Allowed(list[n])

-----------------------------------------------------------------------------
\* computeSnapshotContentSha256, buildSnapshotFromItems
Snapshot(items, at) == [at |-> at, items |-> items, hash |-> << at, items >>]

\* parseSnapshotJson and parseItem: nothing is recomputed in silence.
Verifies(s) ==
  /\ Len(s.items) <= MaxItems
  /\ \A n \in DOMAIN s.items : Sealed(s.items[n])
  /\ s.hash = << s.at, s.items >>

\* loadBundledSnapshot, without what makes it throw.
Loads(bundle) == bundle # None /\ Verifies(bundle)

\* Mutant: the items keep the hash they had.
Relabel_KeepsHash(s, state) ==
  Snapshot([n \in DOMAIN s.items |-> [s.items[n] EXCEPT !.state = state]], s.at)

\* relabelSnapshotState
Relabel(s, state) ==
  Snapshot([n \in DOMAIN s.items |-> Seal([s.items[n] EXCEPT !.state = state])], s.at)

\* computeStale.  What lies in the future has no age.
Risk(at) ==
  LET age == IF at > Now THEN 0 ELSE Now - at
  IN  IF age >= High THEN "high" ELSE IF age >= Medium THEN "medium"
      ELSE IF age >= Low THEN "low" ELSE "none"

\* Mutant: a snapshot that claims to be new is without risk.
AtLeast_Plain(risk, least) == risk

AtLeast(risk, least) == IF risk = "none" THEN least ELSE risk

-----------------------------------------------------------------------------
Answer(ok, mode, calls, snapshot, risk) ==
  [ok |-> ok, mode |-> mode, calls |-> calls, snapshot |-> snapshot, risk |-> risk,
   sent |-> IF calls = 0 THEN {} ELSE TransportRequest(request.context),
   bind |-> None]

(***************************************************************************)
(* loadStaleFallback: the bundled snapshot under the label it is used as.  *)
(* buildSnapshotFromItems verifies what was relabelled.                    *)
(***************************************************************************)
Fallback(state, least, calls) ==
  LET s == Relabel(request.bundle, state)
  IN  IF Loads(request.bundle) /\ Verifies(s)
      THEN Answer(TRUE, IF state = "stale" THEN "stale_snapshot" ELSE "bundled_snapshot",
                  calls, s, AtLeast(Risk(s.at), least))
      ELSE Answer(FALSE, "unavailable_snapshot", calls, None, "unavailable")

(***************************************************************************)
(* validateTransportFetchedAt, the refusal of what is already old, and the *)
(* items.                                                                  *)
(***************************************************************************)
Live(response) ==
  /\ response.arrived
  /\ response.at <= Now + Skew
  /\ Risk(response.at) # "high"
  /\ Acceptable(response.items)

Fetched(response) ==
  LET s == Snapshot(Normalized(response.items, "fresh"), response.at)
  IN  IF Live(response) THEN Answer(TRUE, "live_refresh", 1, s, Risk(response.at))
      ELSE Fallback("stale", "medium", 1)

\* A transport that throws, or answers no time, has not arrived.
Responses == [arrived : BOOLEAN, at : Times, items : Lists]

(***************************************************************************)
(* Lists are sequences, times are numbers, and no local field has the name *)
(* of an allowlist or of what never leaves the device.                     *)
(***************************************************************************)
SoundEvidence ==
  /\ \A l \in Lists : Len(l) \in Nat /\ DOMAIN l = 1..Len(l)
  /\ Times \subseteq Nat /\ {Now, Skew, Low, Medium, High} \subseteq Nat
  /\ LocalFields \cap (Allowlists \cup DeviceOnly) = {}

-----------------------------------------------------------------------------
(***************************************************************************)
(* The bundles: the one that was packaged, and one that was edited since,  *)
(* in an item, in the list, or not there.                                  *)
(***************************************************************************)
Packaged == {Snapshot(Normalized(l, "snapshot"), t) :
               l \in {k \in Lists : Acceptable(k)}, t \in {0, Now - 1, Now + Skew + 1}}

Edited ==
  {[s EXCEPT !.items = Tail(@)] : s \in {p \in Packaged : p.items # << >>}}
  \cup {Snapshot([s.items EXCEPT ![1].quarantined = ~@], s.at) :
          s \in {p \in Packaged : p.items # << >>}}

Init ==
  /\ request \in [decision : {"approved", "refused", "not_requested"},
                  injected : BOOLEAN,
                  bundle : Packaged \cup Edited \cup {None},
                  context : [LocalFields -> {"absent", "token", "text"}]]
  /\ result = None

\* refreshOfficialEvidence
Local ==
  /\ result = None /\ request.decision # "approved"
  /\ result' = Fallback("snapshot", "low", 0)
  /\ UNCHANGED request

NotInjected ==
  /\ result = None /\ request.decision = "approved" /\ ~request.injected
  /\ result' = Fallback("stale", "low", 0)
  /\ UNCHANGED request

Refresh ==
  /\ result = None /\ request.decision = "approved" /\ request.injected
  /\ \E response \in Responses : result' = Fetched(response)
  /\ UNCHANGED request

(***************************************************************************)
(* bindOfficialEvidenceItem, asked for the digest and URL of an item that  *)
(* was shown: the bundled items it names, and which of them may stand for  *)
(* a fix.  isBaseUpstreamFixItem, itemMeetsProfileMechanismPolicy and      *)
(* bindCandidateVersionToOfficial.                                         *)
(***************************************************************************)
Matching(item) ==
  LET b == request.bundle.items
  IN  {n \in DOMAIN b : b[n].hash = item.hash /\ b[n].url = item.url}

FixItem(item) ==
  /\ item.kind \in FixKinds
  /\ item.status \in {"official", "maintainer"}
  /\ ~item.quarantined

Linked(item) == item.structured = "linked"

\* Mutant: the first item of the URL will do.
Bind_ByUrl(item, version) ==
  LET b    == request.bundle.items
      hits == {n \in DOMAIN b : b[n].url = item.url}
  IN  IF ~Loads(request.bundle) THEN "OFFICIAL_SNAPSHOT_REFUSED"
      ELSE IF hits = {} THEN "OFFICIAL_EVIDENCE_UNBOUND"
      ELSE IF ~FixItem(item) THEN "OFFICIAL_EVIDENCE_UNSUITABLE"
      ELSE IF ~Linked(item) THEN "OFFICIAL_EVIDENCE_MECHANISM_UNRELATED"
      ELSE IF version # item.to THEN "CANDIDATE_VERSION_MISMATCH"
      ELSE "bound"

Bind(item, version) ==
  LET b    == request.bundle.items
      hits == Matching(item)
  IN  IF ~Loads(request.bundle) THEN "OFFICIAL_SNAPSHOT_REFUSED"
      ELSE IF hits = {} /\ \E n \in DOMAIN b : b[n].hash = item.hash
      THEN "OFFICIAL_EVIDENCE_REF_MISMATCH"
      ELSE IF hits = {} /\ \E n \in DOMAIN b : b[n].url = item.url
      THEN "OFFICIAL_EVIDENCE_DIGEST_MISMATCH"
      ELSE IF hits = {} THEN "OFFICIAL_EVIDENCE_UNBOUND"
      ELSE IF \E n, m \in hits : n # m THEN "OFFICIAL_EVIDENCE_AMBIGUOUS"
      ELSE IF ~FixItem(item) THEN "OFFICIAL_EVIDENCE_UNSUITABLE"
      ELSE IF ~Linked(item) THEN "OFFICIAL_EVIDENCE_MECHANISM_UNRELATED"
      ELSE IF version # item.to THEN "CANDIDATE_VERSION_MISMATCH"
      ELSE "bound"

BindShown ==
  /\ result # None /\ result.ok /\ result.bind = None
  /\ \E n \in DOMAIN result.snapshot.items, v \in Versions :
       result' = [result EXCEPT !.bind =
         [item |-> result.snapshot.items[n], version |-> v,
          answer |-> Bind(result.snapshot.items[n], v)]]
  /\ UNCHANGED request

Next == Local \/ NotInjected \/ Refresh \/ BindShown

Spec == Init /\ [][Next]_vars

-----------------------------------------------------------------------------
(***************************************************************************)
(* Nothing leaves the device unless the user approved it, at most one      *)
(* request does, and what it carries is what the manifest announced: no    *)
(* device-only field, and no local value that is not a token.              *)
(***************************************************************************)
OnlyWhatWasDisclosed ==
  result # None =>
    /\ result.calls > 0 => (request.decision = "approved" /\ result.calls = 1)
    /\ result.sent \subseteq Manifest(request.context) \ DeviceOnly
    /\ \A f \in result.sent \cap LocalFields : request.context[f] = "token"

(***************************************************************************)
(* However the refresh fails, an intact bundle answers it: an error is     *)
(* answered only when neither the transport nor the bundle can.            *)
(***************************************************************************)
EvidenceIsAvailable == (result # None /\ Loads(request.bundle)) => result.ok

(***************************************************************************)
(* What is shown verifies, and is called fresh, or free of risk, only if   *)
(* it came from the transport just now: never the bundle, whatever time    *)
(* the bundle claims.                                                      *)
(***************************************************************************)
FreshIsLive ==
  (result # None /\ result.ok) =>
    /\ Verifies(result.snapshot)
    /\ (\/ result.risk = "none"
        \/ \E n \in DOMAIN result.snapshot.items : result.snapshot.items[n].state = "fresh")
         => (/\ result.mode = "live_refresh" /\ result.calls = 1
             /\ result.snapshot.at <= Now + Skew /\ Now < result.snapshot.at + High)

(***************************************************************************)
(* An item stands for a fix only if the bundle itself holds it, exactly    *)
(* once and unchanged: an answer of the transport never does, nor does the *)
(* bundle's own item once it was relabelled stale.                         *)
(***************************************************************************)
AuthorityIsBundled ==
  (result # None /\ result.bind # None /\ result.bind.answer = "bound") =>
    /\ result.mode = "bundled_snapshot"
    /\ \E n \in DOMAIN request.bundle.items :
         /\ request.bundle.items[n] = result.bind.item
         /\ \A m \in DOMAIN request.bundle.items \ {n} :
              request.bundle.items[m] # result.bind.item
    /\ result.bind.item.status # "user_reported" /\ ~result.bind.item.quarantined

(***************************************************************************)
(* What is sent was approved, announced and sendable; an intact bundle     *)
(* answers every refresh that fails; what is fresh was just fetched; what  *)
(* stands for a fix is a bundled item, unchanged.                          *)
(***************************************************************************)
EvidenceIsSound ==
  OnlyWhatWasDisclosed /\ EvidenceIsAvailable /\ FreshIsLive /\ AuthorityIsBundled
=============================================================================
