---------------------------- MODULE PageAnalysis ----------------------------
(***************************************************************************)
(* What a web page about a problem says of the one here (src/page).  The   *)
(* page comes in an envelope, or from a transport the user approved; it is *)
(* searched for what it names, its commands become candidates nobody       *)
(* authorizes, and it is compared with the local incident.                 *)
(*                                                                         *)
(* A text is what the patterns find in it: words, stack symbols and errors *)
(* as sets, lines as a sequence.  A line says what it matches and in which *)
(* fenced block it stands, if any.                                         *)
(***************************************************************************)
EXTENDS Naturals, Sequences, FiniteSets, FiniteSetsExt, Functions

CONSTANTS
  Requests,     \* [envelope, local, decision, transport, response]
  AccountHosts, \* CHATGPT_OUT_OF_SCOPE_HOSTS
  MaxCommands,  \* MAX_COMMAND_CANDIDATES
  MaxToken,     \* MAX_EXTRACTION_TOKEN, in lines
  None

VARIABLES
  request,      \* the call
  result        \* what it answered

vars == << request, result >>

-----------------------------------------------------------------------------
(***************************************************************************)
(* parsePageEnvelope: the first thing wrong is told.                       *)
(***************************************************************************)
Checks ==
  << "SIZE_LIMIT", "MALFORMED_JSON", "FORBIDDEN_PRIVACY_FIELD", "EXTRA_KEY", "SCHEMA_VERSION", "INVALID_URL",
     "URL_LIMIT", "INVALID_PAGE_MODE", "INVALID_VISIBLE_TEXT", "VISIBLE_TEXT_LIMIT", "INVALID_TITLE",
     "TITLE_LIMIT", "INVALID_METADATA", "METADATA_LIMIT", "EXTRA_METADATA_KEY" >>

FirstDefect(e) ==
  IF e.defects = {} THEN None ELSE Checks[Min({n \in DOMAIN Checks : Checks[n] \in e.defects})]

\* Mutant: whatever the mode of the page.
Permitted_AnyMode(r) == r.decision = "approved" /\ r.transport

\* pageTransportPermitted, for a public page
Permitted(r) == r.envelope.mode = "public" /\ r.decision = "approved" /\ r.transport

(***************************************************************************)
(* What a transport brings replaces what it has: a title, a text, a host.  *)
(* Should it fail, or bring what cannot be parsed, the envelope stays.     *)
(***************************************************************************)
Merged(r) ==
  IF ~Permitted(r) \/ r.response = None \/ r.response.defects # {} THEN r.envelope
  ELSE [r.envelope EXCEPT !.title = IF r.response.title = None THEN @ ELSE r.response.title,
                          !.text = IF r.response.text = None THEN @ ELSE r.response.text,
                          !.host = IF r.response.host = None THEN @ ELSE r.response.host]

-----------------------------------------------------------------------------
(***************************************************************************)
(* extractPageContent.  Title and text are searched as one.                *)
(***************************************************************************)
Words(e) == e.title.words \cup e.text.words
Symbols(e) == e.title.symbols \cup e.text.symbols
Errors(e) == e.title.errors \cup e.text.errors
Lines(e) == e.title.lines \o e.text.lines

Quarantined(e) == e.title.instruction \/ e.text.instruction

First(order, found) ==
  LET at == {n \in DOMAIN order : order[n] \in found}
  IN  IF at = {} THEN None ELSE order[Min(at)]

Platform(e) == First(<< "windows", "macos", "linux" >>, Words(e))

Surface(e) ==
  IF First(<< "browser_control", "cli", "desktop" >>, Words(e)) # None
  THEN First(<< "browser_control", "cli", "desktop" >>, Words(e))
  ELSE IF Words(e) \cap {"chatgpt", "session"} # {} /\ "codex" \notin Words(e) THEN "chatgpt_account"
  ELSE None

(***************************************************************************)
(* The fenced blocks first, then line by line whatever begins like a       *)
(* command or speaks of a fix: a line of a block is met twice.  Of each no *)
(* more is kept than a token, and of all no more than the limit.           *)
(***************************************************************************)
Block(lines, b) == SelectSeq(lines, LAMBDA l : l.block = b)

Clip(lines) == [n \in DOMAIN lines \cap 1..MaxToken |-> lines[n]]

Commands(lines) ==
  LET blocks == SelectSeq([b \in 1..Len(lines) |-> Block(lines, b)], LAMBDA s : s # << >>)
      single == MapThenFoldSet(LAMBDA first, rest : first \o rest, << >>,
                  LAMBDA n : (IF lines[n].shell THEN << << lines[n] >> >> ELSE << >>)
                             \o (IF lines[n].fix THEN << << lines[n] >> >> ELSE << >>),
                  Min, DOMAIN lines)
      all    == blocks \o single
  IN  [n \in 1..(IF Len(all) < MaxCommands THEN Len(all) ELSE MaxCommands) |-> Clip(all[n])]

Has(lines, mark) == \E n \in DOMAIN lines : lines[n][mark]

\* Mutant: what names the shim is eligible, whatever else it does.
Classify_AnyShim(lines) ==
  IF Has(lines, "shim") THEN [kind |-> "exact_block_removal", eligible |-> TRUE]
  ELSE [kind |-> "unknown_unsupported", eligible |-> FALSE]

\* classifyCommand
Classify(lines) ==
  IF Has(lines, "refused") THEN [kind |-> "unknown_unsupported", eligible |-> FALSE]
  ELSE IF Has(lines, "shim") THEN [kind |-> "exact_block_removal", eligible |-> TRUE]
  ELSE IF Has(lines, "config") THEN [kind |-> "config", eligible |-> FALSE]
  ELSE [kind |-> "unknown_unsupported", eligible |-> FALSE]

\* pageCommandsToDslCandidates: one for each digest, never more than a candidate.
Candidates(e) ==
  {[command |-> c, kind |-> Classify(c).kind, eligible |-> Classify(c).eligible] : c \in Range(Commands(Lines(e)))}

-----------------------------------------------------------------------------
(***************************************************************************)
(* comparePageToLocal                                                      *)
(***************************************************************************)
Codexy(e) ==
  \/ "codex" \in Words(e) \/ Surface(e) \in {"browser_control", "cli", "desktop"}
  \/ Symbols(e) \cap {"browser-client", "process-shim", "chrome.dll"} # {}

OutOfScope(e) ==
  \/ e.host \in AccountHosts
  \/ Surface(e) = "chatgpt_account"
  \/ Words(e) \cap {"chatgpt", "session", "billing"} # {} /\ ~Codexy(e)

Adjacent == {"browser_control", "desktop"}

WrongPlatform(e, l) == None \notin {Platform(e), l.os} /\ l.os # "unknown" /\ Platform(e) # l.os

WrongSurface(e, l) ==
  /\ None \notin {Surface(e), l.surface} /\ l.surface # "unknown" /\ Surface(e) # l.surface
  /\ ~({Surface(e), l.surface} \subseteq Adjacent)

\* Mutant: a symbol counts by being one.
Matching_Any(e, l) == Symbols(e)

Matching(e, l) == Symbols(e) \cap (l.ast \cup l.symbols)

\* An error that says the whole message also counts as a structure.
SaysProtected == {"protected", "named protected"}

StructuralHits(e, l) ==
  Cardinality(Matching(e, l)) + (IF "process-shim" \in Symbols(e) \cap l.ast THEN 2 ELSE 0)
  + (IF l.protected THEN Cardinality(Errors(e) \cap SaysProtected) ELSE 0)

ErrorHit(e, l) == Errors(e) \cap l.errors # {} \/ (l.protected /\ Errors(e) \cap SaysProtected # {})

Refuted(applicability, risk) ==
  [applicability |-> applicability, confidence |-> "none", risk |-> risk, eligible |-> FALSE]

\* Mutant: matching signals are looked for before the platform and the surface.
Compare_SignalsFirst(e, l, hits, error, candidates) ==
  IF OutOfScope(e) THEN Refuted("chatgpt_out_of_scope", "low")
  ELSE IF l = None THEN Refuted("insufficient_evidence", "moderate")
  ELSE IF hits = 0 /\ ~error THEN Refuted("insufficient_evidence", "moderate")
  ELSE [applicability |-> "applicable_candidate", confidence |-> "low", risk |-> "moderate",
        eligible |-> hits > 0 /\ \E c \in candidates : c.eligible]

Compare(e, l, hits, error, candidates) ==
  IF OutOfScope(e) THEN Refuted("chatgpt_out_of_scope", "low")
  ELSE IF l = None THEN Refuted("insufficient_evidence", "moderate")
  ELSE IF WrongPlatform(e, l) THEN Refuted("wrong_platform", "moderate")
  ELSE IF WrongSurface(e, l) THEN Refuted("wrong_surface", "moderate")
  ELSE IF hits = 0 /\ ~error /\ Symbols(e) = {}
  THEN IF Has(Lines(e), "conclusion") THEN Refuted("unsupported_assertion", "high")
       ELSE Refuted("insufficient_evidence", "moderate")
  ELSE IF hits = 0 /\ ~error THEN Refuted("wrong_mechanism", "moderate")
  ELSE [applicability |-> "applicable_candidate",
        confidence |-> IF hits >= 2 /\ error THEN "medium" ELSE "low",
        risk |-> IF Quarantined(e) THEN "high" ELSE "moderate",
        eligible |-> hits > 0 /\ \E c \in candidates : c.eligible]

Verdict(e, l) ==
  Compare(e, l, IF l = None THEN 0 ELSE StructuralHits(e, l), l # None /\ ErrorHit(e, l), Candidates(e))

(***************************************************************************)
(* analyzePage: an envelope that is refused is neither fetched nor read.   *)
(***************************************************************************)
Analysis(r) ==
  IF FirstDefect(r.envelope) # None
  THEN [ok |-> FALSE, error |-> FirstDefect(r.envelope), calls |-> 0, page |-> None, verdict |-> None,
        candidates |-> {}]
  ELSE [ok |-> TRUE, error |-> None, calls |-> IF Permitted(r) THEN 1 ELSE 0, page |-> Merged(r),
        verdict |-> Verdict(Merged(r), r.local), candidates |-> Candidates(Merged(r))]

\* What the proofs assume of a page: an envelope has its fields and a text its own.
TextFields == {"words", "symbols", "errors", "lines", "instruction"}

SoundPages ==
  \A r \in Requests :
    /\ {"title", "text", "host"} \subseteq DOMAIN r.envelope
    /\ TextFields \subseteq DOMAIN r.envelope.title /\ TextFields \subseteq DOMAIN r.envelope.text
    /\ r.response # None =>
         /\ r.response.title # None => TextFields \subseteq DOMAIN r.response.title
         /\ r.response.text # None => TextFields \subseteq DOMAIN r.response.text

Init == request \in Requests /\ result = None

Analyze ==
  /\ result = None
  /\ result' = Analysis(request)
  /\ UNCHANGED request

Next == Analyze

-----------------------------------------------------------------------------
Analyzed == result # None /\ result.ok

(***************************************************************************)
(* A page is taken for one about the problem here only if nothing it says  *)
(* places it elsewhere and a symbol or an error of it is one of the local  *)
(* incident, and no page is certain; it leads to a repair only if, besides *)
(* its error, a structure of it is measured here.                          *)
(***************************************************************************)
VerdictIsEarned ==
  (Analyzed /\ result.verdict.applicability = "applicable_candidate") =>
    LET e == result.page
        l == request.local
        structure == Symbols(e) \cap (l.ast \cup l.symbols) # {} \/ (l.protected /\ Errors(e) \cap SaysProtected # {})
    IN  /\ e.host \notin AccountHosts
        /\ Platform(e) \in {None, l.os} \/ l.os \in {None, "unknown"}
        /\ Surface(e) \in {None, l.surface} \/ {Surface(e), l.surface} \subseteq Adjacent
             \/ l.surface \in {None, "unknown"}
        /\ structure \/ Errors(e) \cap l.errors # {}
        /\ result.verdict.confidence \in {"low", "medium"}
        /\ result.verdict.eligible => structure

\* The same page with one more line, and with instructions in it.
More(e) ==
  {[e EXCEPT !.text.lines = Append(@, x)] : x \in Range(Lines(e)) \cup
     {[shell |-> TRUE, fix |-> TRUE, shim |-> TRUE, refused |-> FALSE, config |-> FALSE, conclusion |-> TRUE,
       block |-> 0, name |-> "more"]}}
  \cup {[e EXCEPT !.text.instruction = TRUE]}

(***************************************************************************)
(* Commands, conclusions and instructions convince nobody: a page that is  *)
(* refuted stays refuted with more of them, and instructions make it       *)
(* nothing but riskier.                                                    *)
(***************************************************************************)
ProseGainsNothing ==
  Analyzed =>
    /\ \A e \in More(result.page) :
         \E v \in {Verdict(e, request.local)} :
           /\ v.confidence = result.verdict.confidence
           /\ v.confidence = "none" => ~v.eligible
    /\ \E v \in {Verdict([result.page EXCEPT !.text.instruction = FALSE, !.title.instruction = FALSE], request.local)} :
         [v EXCEPT !.risk = result.verdict.risk] = result.verdict

(***************************************************************************)
(* What is eligible is a repair the engine knows and, in what is kept of   *)
(* it, nothing it would refuse.                                            *)
(***************************************************************************)
CandidatesAreClean ==
  Analyzed =>
    \A c \in result.candidates :
      c.eligible =>
        /\ c.kind = "exact_block_removal" /\ DOMAIN c.command \subseteq 1..MaxToken
        /\ Has(c.command, "shim") /\ ~Has(c.command, "refused")

(***************************************************************************)
(* Only a public page is fetched, once, after the user approved it; what   *)
(* the user sees when signed in is analysed as it was handed over.         *)
(***************************************************************************)
FetchedAsApproved ==
  result # None =>
    /\ result.calls > 0 => request.decision = "approved" /\ request.envelope.mode = "public" /\ result.ok
    /\ (result.ok /\ result.calls = 0) => result.page = request.envelope
    /\ ~result.ok => result.calls = 0 /\ result.verdict = None
=============================================================================
