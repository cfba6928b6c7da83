------------------------------ MODULE RescueCli ------------------------------
(***************************************************************************)
(* The Rescue CLI (src/cli/main.ts): the command line in front of the      *)
(* cores that the MCP server serves too.  A command is named as the tool   *)
(* that shares its core, and what a word stands for as the tool's argument.*)
(*                                                                         *)
(* A word of the line is a positional or a flag; its value is one of the   *)
(* two it may have, "odd" when it is not such a value, empty, or missing.  *)
(***************************************************************************)
EXTENDS Naturals, Sequences, FiniteSets

CONSTANTS
  None,
  Requests  \* the command lines

VARIABLES
  request,  \* the command line, the files it names and the environment
  result    \* [exit, core, args]

vars == << request, result >>

Mcp == INSTANCE McpTools

Texts(seq) == {seq[n] : n \in DOMAIN seq}

-----------------------------------------------------------------------------
(***************************************************************************)
(* The words of each command: the flag, the argument, and the kind, which  *)
(* says what values the parser lets through.                               *)
(***************************************************************************)
Takes(kind, pairs) == {[flag |-> p[1], arg |-> p[2], kind |-> kind] : p \in pairs}

Disclose == Takes("approved", {<< "disclose-approved", Mcp!Decision >>})
            \cup Takes("refused", {<< "disclose-refused", Mcp!Decision >>})

AnalysisWords(tool) ==
  CASE tool = "impact" -> Disclose
    [] tool = "analyze_page" -> Disclose \cup Takes("text", {<< "envelope", "envelope" >>})
    [] tool = "upstream_preview" -> Disclose \cup Takes("text", {<< "request", "request" >>})
    [] OTHER -> {}

\* Mutant: the attachments, which the server takes, have no word.
ActionWords_NoAttachments(tool) ==
  IF tool = "upstream_action_preview"
  THEN Takes("text", {<< "capsule", "capsule" >>, << "action", "action" >>})
  ELSE Takes("text", {<< "confirmation", "confirmation_token" >>, << "decision", "decision" >>})

ActionWords(tool) ==
  IF tool = "upstream_action_preview"
  THEN Takes("text", {<< "capsule", "capsule" >>, << "action", "action" >>,
                      << "attachments", "attachment_manifest" >>})
  ELSE Takes("text", {<< "confirmation", "confirmation_token" >>, << "decision", "decision" >>})

\* Mutant: whatever is said of the trust in the hook is passed on.
LocalWords_AnyTrust(tool) ==
  CASE tool = "scan_system" -> Takes("skipped", {<< "state-dir", "state_dir" >>})
    [] tool = "session_start" -> Takes("text", {<< "hook-trust", "hook_trust" >>})
    [] OTHER -> {}

LocalWords(tool) ==
  CASE tool = "scan_system" -> Takes("skipped", {<< "state-dir", "state_dir" >>})
    [] tool = "session_start" -> Takes("choice", {<< "hook-trust", "hook_trust" >>})
    [] OTHER -> {}

PlatformWords(tool) ==
  CASE tool = "platform_status" ->
         Takes("choice", {<< "probe-host", "probe_host" >>, << "adapter", "adapter" >>})
         \cup Takes("text", {<< "receipt", "receipt" >>}) \cup Takes("switch", {<< "plan", "plan" >>})
    [] tool = "demo" -> Takes("choice", {<< "budget-ms", "budget_ms" >>})
    [] tool = "compare_local_update" ->
         Takes("choice", {<< "format", None >>})
         \cup Takes("switch", {<< "json", None >>, << "markdown", None >>, << "md", None >>})
    [] OTHER -> {}

\* runLifecycleCli
LifecycleWords ==
  Takes("free", {<< "instance-id", "instance_id" >>, << "surface", "surface" >>,
                 << "source-rel", "source_rel" >>, << "checkpoint-id", "checkpoint_id" >>,
                 << "official-source", "official_source" >>, << "version-pin", "version_pin" >>,
                 << "provenance", "provenance" >>, << "candidate-version", "candidate_version" >>,
                 << "recipe-id", "recipe_id" >>, << "upstream-ref", "upstream_ref" >>,
                 << "upstream-evidence-digest", "upstream_evidence_digest" >>})
  \cup Takes("boolean", {<< "timestamp-only", "timestamp_only" >>,
                         << "signed-history", "signed_history_available" >>,
                         << "lawful-media", "lawful_media_available" >>,
                         << "original-fault-absent", "original_fault_absent" >>,
                         << "core-regressions-passed", "core_regressions_passed" >>,
                         << "canary-executed", "canary_executed" >>,
                         << "upstream-verified", "upstream_verified" >>})
  \cup Takes("json", {<< "control-json", "control" >>, << "treatment-json", "treatment" >>})
  \cup Takes("number", {<< "now-ms", "now_ms" >>})

\* runFollowupCli; the request file stands for all the others.
FollowupWords ==
  Takes("text", {<< "request", "request" >>, << "issue", "issue" >>,
                 << "candidate-version", "candidate_version" >>, << "recipe-id", "recipe_id" >>,
                 << "official-evidence-item-digest", "official_evidence_item_digest" >>,
                 << "official-evidence-ref", "official_evidence_ref" >>,
                 << "baseline-target", "baseline_target" >>,
                 << "measurement-profile-id", "measurement_profile_id" >>})
  \cup Takes("json", {<< "event-json", "event" >>}) \cup Takes("finite", {<< "now-ms", "now_ms" >>})

WordsOf(tool) ==
  CASE tool \in Mcp!AnalysisTools -> AnalysisWords(tool)
    [] tool \in Mcp!ActionTools -> ActionWords(tool)
    [] tool \in Mcp!LocalTools -> LocalWords(tool)
    [] tool \in Mcp!PlatformTools -> PlatformWords(tool)
    [] tool = "lifecycle" -> LifecycleWords
    [] tool = "followup" -> FollowupWords

Positionals(tool) ==
  CASE tool = "repair_apply" -> << "target", "authorization" >>
    [] tool \in {"lifecycle", "followup"} -> << "operation", "target" >>
    [] tool = "platform_receipt_validate" -> << "receipt" >>
    [] tool \in {"scan_system", "platform_status", "demo", "compare_local_update"} -> << >>
    [] OTHER -> << "target" >>

\* The flags without which the command is not understood.
Needed(tool) ==
  CASE tool = "analyze_page" -> {"envelope"}
    [] tool = "upstream_preview" -> {"request"}
    [] tool = "upstream_action_preview" -> {"capsule", "action"}
    [] tool = "upstream_action_confirm" -> {"confirmation_token", "decision"}
    [] OTHER -> {}

-----------------------------------------------------------------------------
\* What the parsers let through of each kind.  An empty number is zero.
Lets(kind) ==
  CASE kind = "text" -> {"good", "other", "odd"}
    [] kind \in {"choice", "json"} -> {"good", "other"}
    [] kind = "finite" -> {"good", "other", "empty"}
    [] kind \in {"free", "boolean", "number", "skipped"} -> {"good", "other", "odd", "empty"}
    [] OTHER -> {"bare"}

\* Anything that is not true or 1 is false; what is no number is passed on.
Meaning(kind, value) ==
  CASE kind \in {"approved", "refused"} -> kind
    [] kind = "switch" -> "good"
    [] kind = "boolean" -> IF value = "good" THEN "good" ELSE "other"
    [] kind \in {"number", "finite"} /\ value = "empty" -> "other"
    [] OTHER -> value

\* Where the positionals of the line are, and where its flags
Given(line) == {n \in DOMAIN line.words : line.words[n].flag = "positional"}
Flags(line) == DOMAIN line.words \ Given(line)

\* Of a repeated trust only the first is looked at.
Looked(line, n) ==
  \/ line.words[n].flag # "hook-trust"
  \/ \A m \in 1..(n - 1) : line.words[m].flag # "hook-trust"

\* The comparison with a staged update ignores positionals.
Understood(line, table) ==
  /\ \/ Cardinality(Given(line)) = Len(Positionals(line.tool))
     \/ line.tool = "compare_local_update"
  /\ \A n \in Flags(line) :
       \E t \in table :
         /\ t.flag = line.words[n].flag
         /\ \/ line.words[n].value \in Lets(t.kind)
            \/ ~Looked(line, n) /\ line.words[n].value # "bare"
  /\ \A a \in Needed(line.tool) : \E n \in Flags(line) : [flag |-> line.words[n].flag, arg |-> a, kind |-> "text"] \in table
  /\ line.tool = "followup" =>
       line.operation \in Mcp!FollowupOperations /\ \A n \in Given(line) : line.words[n].value # "empty"

\* The flags that say something of the argument
Saying(line, table, a) ==
  {n \in Flags(line) :
     /\ \E t \in table : t.flag = line.words[n].flag /\ t.arg = a
     /\ ~(a = "state_dir" /\ line.words[n].value = "empty")}

\* Mutant: consent once given on a line stays.
Chosen_Approval(line, a, all) ==
  LET approvals == {n \in all : line.words[n].flag = "disclose-approved"}
  IN  IF approvals # {} THEN CHOOSE n \in approvals : TRUE
      ELSE CHOOSE n \in all : \A m \in all : m <= n

\* Of several the last counts, but the first trust and state directory.
Chosen(line, a, all) ==
  IF a \in {"hook_trust", "state_dir"} THEN CHOOSE n \in all : \A m \in all : n <= m
  ELSE CHOOSE n \in all : \A m \in all : m <= n

MeaningOf(w, table) == Meaning((CHOOSE t \in table : t.flag = w.flag).kind, w.value)

\* What the flags say
Inline(line, table) ==
  [a \in {t.arg : t \in {u \in table : u.arg # None /\ Saying(line, table, u.arg) # {}}} |->
     MeaningOf(line.words[Chosen(line, a, Saying(line, table, a))], table)]

\* The value of the n-th positional
Nth(line, n) == line.words[CHOOSE k \in Given(line) : Cardinality({m \in Given(line) : m <= k}) = n].value

Placed(line) ==
  [a \in Texts(Positionals(line.tool)) |->
     Nth(line, CHOOSE n \in DOMAIN Positionals(line.tool) : Positionals(line.tool)[n] = a)]

-----------------------------------------------------------------------------
(***************************************************************************)
(* The files.  A page is handed over unparsed, a receipt of any size; what *)
(* is not a token and names a file is read from it, else it is the token.  *)
(***************************************************************************)
Refuses(tool) ==
  CASE tool = "analyze_page" -> {"absent", "large"}
    [] tool = "platform_receipt_validate" -> {"absent", "malformed"}
    [] tool \in {"upstream_preview", "upstream_action_preview", "followup"} -> {"absent", "large", "malformed"}
    [] tool = "upstream_action_confirm" -> {"large"}
    [] OTHER -> {}

ReadsFile(line, inline) ==
  CASE line.tool = "followup" -> "request" \in DOMAIN inline
    [] line.tool = "upstream_action_confirm" -> inline["confirmation_token"] # "good"
    [] OTHER -> TRUE

Unparsable(line, inline) ==
  \/ ReadsFile(line, inline) /\ line.file \in Refuses(line.tool)
  \/ line.tool = "platform_receipt_validate" /\ Nth(line, 1) = "empty"
  \/ "attachment_manifest" \in DOMAIN inline /\ line.attachments \in {"absent", "large", "malformed"}

\* Mutant: the file is read and what the line says besides is added to it.
Conflict_Merged(line, inline) == FALSE

\* A request file and inline fields
Conflict(line, inline) == line.tool = "followup" /\ "request" \in DOMAIN inline /\ DOMAIN inline # {"request"}

\* The body of a follow-up request, from the file or from the line
Body(line, inline) ==
  [a \in (DOMAIN inline \ {"request"}) \cup (IF "request" \in DOMAIN inline THEN line.body ELSE {}) |->
     IF a \in DOMAIN inline THEN inline[a] ELSE "good"]

Digest == "official_evidence_item_digest"

\* parseFollowupWireBody: the same parser as the server's
WireRefuses(line, body) ==
  /\ line.tool = "followup"
  /\ \/ ~(DOMAIN body \subseteq Mcp!WireFields(line.operation))
     \/ Digest \in DOMAIN body /\ body[Digest] = "odd"

\* PLUGIN_DATA stands in for a state directory.
StateDir(line, inline) ==
  IF line.tool = "scan_system" /\ "state_dir" \notin DOMAIN inline /\ line.plugin_data THEN {"state_dir"} ELSE {}

\* What the core gets.  A decision about a follow-up is checked and goes no further.
ArgsOf(line, inline, body) ==
  LET named == IF line.tool = "followup" THEN body ELSE inline
      gone  == IF line.tool = "followup" THEN {Mcp!Decision} ELSE {}
  IN  [a \in (DOMAIN named \ gone) \cup Texts(Positionals(line.tool)) \cup StateDir(line, inline) |->
         IF a \in DOMAIN named THEN named[a]
         ELSE IF a \in StateDir(line, inline) THEN "plugin data" ELSE Placed(line)[a]]

NotRun(exit) == [exit |-> exit, core |-> FALSE, args |-> << >>]

(***************************************************************************)
(* runCli.  A core that refuses or throws, like an answer that would leak  *)
(* a path, is told as a failure.                                           *)
(***************************************************************************)
Answer(line, table, inline, body, well) ==
  IF ~Understood(line, table) THEN NotRun(2)
  ELSE IF line.tool = "scan_system" /\ "state_dir" \notin DOMAIN inline \cup StateDir(line, inline) THEN NotRun(2)
  ELSE IF Conflict(line, inline) \/ Unparsable(line, inline) \/ WireRefuses(line, body) THEN NotRun(1)
  ELSE [exit |-> IF well THEN 0 ELSE 1, core |-> TRUE, args |-> ArgsOf(line, inline, body)]

Init == request \in Requests /\ result = None

RunCli(well) ==
  /\ result = None
  /\ \E table \in {WordsOf(request.tool)} : \E inline \in {Inline(request, table)} :
       result' = Answer(request, table, inline, Body(request, inline), well)
  /\ UNCHANGED request

Next == \E well \in BOOLEAN : RunCli(well)

-----------------------------------------------------------------------------
Word(flag, value) == [flag |-> flag, value |-> value]

\* The word for an argument
WordFor(tool, a) ==
  LET by == {t \in WordsOf(tool) : t.arg = a /\ t.kind # "refused"}
      t  == CHOOSE t \in by : TRUE
  IN  IF by = {} THEN Word("unknown", "good") ELSE Word(t.flag, IF Lets(t.kind) = {"bare"} THEN "bare" ELSE "good")

\* The line says what the call of the server says: the positionals first, then
\* every other argument by its word, and the files are there.
Says(line, call) ==
  LET placed == Positionals(line.tool)
  IN  /\ call.tool = line.tool /\ call.args \subseteq Mcp!AllArgs /\ call.wrong = {}
      /\ call.operation = line.operation
      /\ call.tool = "followup" => call.operation \in Mcp!FollowupOperations
      /\ Given(line) = DOMAIN placed /\ \A n \in Given(line) : line.words[n].value = "good"
      /\ {line.words[n] : n \in Flags(line)} = {WordFor(line.tool, a) : a \in call.args \ Texts(placed)}
      /\ line.file = "good" /\ line.attachments = "good" /\ line.body = {} /\ ~line.plugin_data

\* What the proofs assume of the lines.
SoundLines ==
  /\ None \notin Mcp!AllArgs
  /\ \A line \in Requests :
       /\ line # None /\ line.tool \in Mcp!Tools
       /\ line.words \in Seq([flag : STRING, value : STRING])
       /\ line.call # None => Says(line, line.call)

Ran == result # None /\ result.core

\* The values the server looks at besides their type
Enumerated == {"decision", "hook_trust", "adapter", "probe_host", "budget_ms", Digest, Mcp!Decision}

AsCall(line, args) ==
  [tool |-> line.tool, args |-> DOMAIN args, operation |-> line.operation, top |-> {"name", "arguments"},
   wrong |-> {a \in DOMAIN args \cap Enumerated : args[a] = "odd"}
             \cup {a \in DOMAIN args \cap Texts(Positionals(line.tool)) : args[a] = "empty"}]

(***************************************************************************)
(* The command line is no back door: what reaches a core from it the       *)
(* server would have let through.  Only an empty positional, and an answer *)
(* to a confirmation that is neither of the two, are left to the core.     *)
(***************************************************************************)
LeftToTheCore == {a \in Texts(Positionals(request.tool)) : result.args[a] = "empty"}
                 \cup (IF request.tool = "upstream_action_confirm" THEN {"decision"} ELSE {})

ServedByBoth ==
  Ran => \E call \in {AsCall(request, result.args)} : Mcp!Dispatched([call EXCEPT !.wrong = @ \ LeftToTheCore])

(***************************************************************************)
(* And it is no poorer: the line that says what a call of the server says  *)
(* reaches the same core with the same arguments, all of them, unless the  *)
(* server refuses the call too; the decision a follow-up refresh may carry *)
(* has no word of its own, only its place in a request file.               *)
(***************************************************************************)
SaidEitherWay ==
  (result # None /\ request.call # None) =>
    \/ result.core /\ DOMAIN result.args = request.call.args
    \/ ~Mcp!Dispatched(request.call)
    \/ request.call.tool = "followup" /\ Mcp!Decision \in request.call.args

(***************************************************************************)
(* Consent is what the line says last, and silence is none.                *)
(***************************************************************************)
ConsentIsTheLast ==
  (Ran /\ Mcp!Decision \in DOMAIN result.args /\ result.args[Mcp!Decision] = "approved") =>
    \E n \in DOMAIN request.words :
      /\ request.words[n].flag = "disclose-approved"
      /\ \A m \in DOMAIN request.words : request.words[m].flag = "disclose-refused" => m < n

(***************************************************************************)
(* A follow-up request has one source.                                     *)
(***************************************************************************)
OneSource ==
  (Ran /\ request.tool = "followup" /\ \E n \in DOMAIN request.words : request.words[n].flag = "request") =>
    DOMAIN result.args = (request.body \ {Mcp!Decision}) \cup {"operation", "target"}
=============================================================================
