------------------------------ MODULE McpTools ------------------------------
(***************************************************************************)
(* handleMessage and handleToolsCall of the MCP server (src/mcp/server.ts) *)
(* with the wire parser of follow-up requests: which messages are          *)
(* answered, and which tool calls reach a core.                            *)
(*                                                                         *)
(* What tools/list advertises and what the handlers accept are two tables  *)
(* in the code, and two here.                                              *)
(***************************************************************************)
EXTENDS Naturals, FiniteSets

CONSTANT None

VARIABLES
  request,  \* a message, parsed
  result    \* what the server did with it

vars == << request, result >>

Decision == "disclosure_decision"

\* KNOWN_TOOLS, without the common prefix
AnalysisTools == {"diagnose", "impact", "analyze_page", "upstream_preview"}
ActionTools   == {"upstream_action_preview", "upstream_action_confirm"}
LocalTools    == {"repair_preview", "repair_apply", "verify", "rollback", "scan",
                  "scan_system", "session_start"}
PlatformTools == {"platform_status", "platform_receipt_validate", "demo",
                  "compare_local_update"}
Tools == AnalysisTools \cup ActionTools \cup LocalTools \cup PlatformTools
         \cup {"lifecycle", "followup"}

-----------------------------------------------------------------------------
\* toolSchemas: what each tool requires and what else it may be given
\* (additionalProperties is false), one operator per family of tools.

Schema(required, optional) == [required |-> required, optional |-> optional]

AnalysisSchema(tool) ==
  CASE tool = "diagnose" -> Schema({"target"}, {})
    [] tool = "impact" -> Schema({"target"}, {Decision})
    [] tool = "analyze_page" -> Schema({"target", "envelope"}, {Decision})
    [] tool = "upstream_preview" -> Schema({"target", "request"}, {Decision})

ActionSchema(tool) ==
  CASE tool = "upstream_action_preview" ->
         Schema({"target", "capsule", "action"}, {"attachment_manifest"})
    [] tool = "upstream_action_confirm" ->
         Schema({"target", "confirmation_token", "decision"}, {})

LocalSchema(tool) ==
  CASE tool = "repair_apply" -> Schema({"target", "authorization"}, {})
    [] tool = "scan_system" -> Schema({"state_dir"}, {})
    [] tool = "session_start" -> Schema({"target"}, {"hook_trust"})
    [] OTHER -> Schema({"target"}, {})

LifecycleSchema ==
  Schema({"target", "operation"},
         {"instance_id", "surface", "source_rel", "checkpoint_id", "now_ms", "timestamp_only",
          "control", "treatment", "official_source", "version_pin", "provenance",
          "signed_history_available", "lawful_media_available", "candidate_version",
          "original_fault_absent", "core_regressions_passed", "canary_executed", "recipe_id",
          "upstream_ref", "upstream_evidence_digest", "upstream_verified"})

FollowupSchema ==
  Schema({"target", "operation"},
         {"issue", "event", "candidate_version", "recipe_id", "official_evidence_item_digest",
          "official_evidence_ref", "baseline_target", "measurement_profile_id", "now_ms"})

PlatformSchema(tool) ==
  CASE tool = "platform_status" -> Schema({}, {"probe_host", "adapter", "receipt", "plan"})
    [] tool = "platform_receipt_validate" -> Schema({"receipt"}, {})
    [] tool = "demo" -> Schema({}, {"budget_ms"})
    [] tool = "compare_local_update" -> Schema({}, {})

SchemaOf(tool) ==
  CASE tool \in AnalysisTools -> AnalysisSchema(tool)
    [] tool \in ActionTools -> ActionSchema(tool)
    [] tool \in LocalTools -> LocalSchema(tool)
    [] tool \in PlatformTools -> PlatformSchema(tool)
    [] tool = "lifecycle" -> LifecycleSchema
    [] tool = "followup" -> FollowupSchema
    [] OTHER -> Schema({}, {})

Required(tool)   == SchemaOf(tool).required
Advertised(tool) == Required(tool) \cup SchemaOf(tool).optional

-----------------------------------------------------------------------------
FollowupOperations ==
  {"subscribe", "unsubscribe", "status", "session_hint", "refresh", "process_event",
   "validate_candidate"}

\* OP_ALLOWED_KEYS
WireFields(operation) ==
  {"now_ms"} \cup
  CASE operation \in {"subscribe", "unsubscribe"} -> {"issue"}
    [] operation = "refresh" -> {"event", Decision}
    [] operation = "process_event" -> {"event"}
    [] operation = "validate_candidate" ->
         {"issue", "candidate_version", "recipe_id", "official_evidence_item_digest",
          "official_evidence_ref", "baseline_target", "measurement_profile_id"}
    [] OTHER -> {}

(***************************************************************************)
(* handleToolsCall: the arguments a tool's branch allows, those among them *)
(* whose value is looked at before the core is called, and those without   *)
(* which it is not.                                                        *)
(***************************************************************************)
Handler(allowed, checked, needed) ==
  [allowed |-> allowed, checked |-> checked, needed |-> needed]

AnalysisHandler(tool) ==
  CASE tool = "diagnose" -> Handler({"target"}, {"target"}, {"target"})
    [] tool = "impact" -> Handler({"target", Decision}, {"target", Decision}, {"target"})
    [] tool = "analyze_page" ->
         Handler({"target", "envelope", Decision}, {"target", "envelope", Decision},
                 {"target", "envelope"})
    [] tool = "upstream_preview" ->
         Handler({"target", "request", Decision}, {"target", "request", Decision},
                 {"target", "request"})

ActionHandler(tool) ==
  CASE tool = "upstream_action_preview" ->
         Handler({"target", "capsule", "action", "attachment_manifest"},
                 {"target", "capsule", "action"}, {"target", "capsule", "action"})
    [] tool = "upstream_action_confirm" ->
         Handler({"target", "confirmation_token", "decision"},
                 {"target", "confirmation_token", "decision"},
                 {"target", "confirmation_token", "decision"})

\* Mutant: the branch was not told of an argument that the schema gained.
LocalHandler_Forgets(tool) ==
  CASE tool = "repair_apply" ->
         Handler({"target", "authorization"}, {"target", "authorization"},
                 {"target", "authorization"})
    [] tool = "scan_system" -> Handler({"state_dir"}, {"state_dir"}, {"state_dir"})
    [] OTHER -> Handler({"target"}, {"target"}, {"target"})

LocalHandler(tool) ==
  CASE tool = "repair_apply" ->
         Handler({"target", "authorization"}, {"target", "authorization"},
                 {"target", "authorization"})
    [] tool = "scan_system" -> Handler({"state_dir"}, {"state_dir"}, {"state_dir"})
    [] tool = "session_start" ->
         Handler({"target", "hook_trust"}, {"target", "hook_trust"}, {"target"})
    [] OTHER -> Handler({"target"}, {"target"}, {"target"})

\* An optional lifecycle argument of another type is left out in silence.
LifecycleHandler ==
  Handler({"target", "operation", "instance_id", "surface", "source_rel", "checkpoint_id",
           "now_ms", "timestamp_only", "control", "treatment", "official_source",
           "version_pin", "provenance", "signed_history_available",
           "lawful_media_available", "candidate_version", "original_fault_absent",
           "core_regressions_passed", "canary_executed", "recipe_id", "upstream_ref",
           "upstream_evidence_digest", "upstream_verified"},
          {"target", "operation"}, {"target", "operation"})

\* parseFollowupWireBody; an event is looked at by the core.
FollowupHandler ==
  LET allowed == {"target", "operation"} \cup UNION {WireFields(o) : o \in FollowupOperations}
  IN  Handler(allowed, allowed \ {"event"}, {"target", "operation"})

PlatformHandler(tool) ==
  CASE tool = "platform_status" ->
         Handler({"probe_host", "receipt", "plan", "adapter"},
                 {"probe_host", "receipt", "plan", "adapter"}, {})
    [] tool = "platform_receipt_validate" -> Handler({"receipt"}, {"receipt"}, {"receipt"})
    [] tool = "demo" -> Handler({"budget_ms"}, {"budget_ms"}, {})
    [] tool = "compare_local_update" -> Handler({}, {}, {})

HandlerOf(tool) ==
  CASE tool \in AnalysisTools -> AnalysisHandler(tool)
    [] tool \in ActionTools -> ActionHandler(tool)
    [] tool \in LocalTools -> LocalHandler(tool)
    [] tool \in PlatformTools -> PlatformHandler(tool)
    [] tool = "lifecycle" -> LifecycleHandler
    [] tool = "followup" -> FollowupHandler

Allowed(tool) == HandlerOf(tool).allowed

\* Mutant: a follow-up operation takes the fields of all.
Extra_AnyOperation(call) == ~(call.args \subseteq Allowed(call.tool))

\* parseFollowupRequestObject: the fields of another operation are extra.
Extra(call) ==
  \/ ~(call.args \subseteq Allowed(call.tool))
  \/ /\ call.tool = "followup" /\ {"target", "operation"} \subseteq call.args
     /\ ~(call.args \subseteq {"target", "operation"} \cup WireFields(call.operation))

Missing(call) == ~(HandlerOf(call.tool).needed \subseteq call.args)

Malformed(call) == call.wrong \cap call.args \cap HandlerOf(call.tool).checked # {}

\* handleToolsCall, up to the core it dispatches to.
Dispatched(call) ==
  /\ call.top = {"name", "arguments"}
  /\ call.tool \in Tools
  /\ ~Extra(call) /\ ~Missing(call) /\ ~Malformed(call)

-----------------------------------------------------------------------------
AllArgs == UNION {Advertised(t) : t \in Tools} \cup {Decision, "unknown_arg"}

\* Calls with what is required, one argument more or less, or all there is.
CallsOf(t, a) ==
  {[tool |-> t, args |-> a, wrong |-> w, operation |-> o, top |-> {"name", "arguments"}] :
     o \in IF t = "followup" THEN FollowupOperations ELSE {"status"}, w \in {{}} \cup {{k} : k \in a}}

CallsTo(t) ==
  UNION {CallsOf(t, a) : a \in {Required(t) \cup {k} : k \in AllArgs}
                               \cup {Required(t) \ {k} : k \in Required(t)}
                               \cup {Required(t), Advertised(t)}}

Calls ==
  UNION {CallsTo(t) : t \in Tools}
  \cup {[tool |-> t, args |-> Required(t), wrong |-> {}, operation |-> "status", top |-> k] :
          t \in Tools \cup {"unknown_tool"},
          k \in {{"name"}, {"name", "arguments"}, {"name", "arguments", "_meta"}}}

Methods == {"initialize", "initialized", "notifications/initialized", "tools/list", "ping", "other"}

NoCall == [tool |-> "none", args |-> {}, wrong |-> {}, operation |-> "none", top |-> {}]

Messages ==
  [shape : {"unparsable", "null", "not_2.0", "message"}, method : Methods, id : BOOLEAN,
   call : {NoCall}]
  \cup [shape : {"message"}, method : {"tools/call"}, id : {TRUE}, call : Calls]

Init == request \in Messages /\ result = None

Reply(what, id) == [what |-> what, id |-> id, dispatched |-> FALSE]

\* A null message is read from outside the try block: the process ends.
Crashed == Reply("exit", FALSE)

Answer(m) ==
  CASE m.shape = "unparsable" -> Reply("parse_error", FALSE)
    [] m.shape = "null" -> Crashed
    [] m.shape = "not_2.0" -> Reply("invalid_request", m.id)
    [] m.method \in {"initialized", "notifications/initialized"} -> Reply("none", FALSE)
    [] m.method = "other" -> Reply("method_not_found", m.id)
    [] m.method = "tools/call" ->
         IF Dispatched(m.call) THEN [Reply("result", m.id) EXCEPT !.dispatched = TRUE]
         ELSE Reply("error", m.id)
    [] OTHER -> Reply("result", m.id)

HandleMessage ==
  /\ result = None
  /\ result' = Answer(request)
  /\ UNCHANGED request

Next == HandleMessage

-----------------------------------------------------------------------------
\* The call follows the schema that tools/list advertises for its tool.
Conforms(call) ==
  /\ call.tool \in Tools /\ call.top = {"name", "arguments"}
  /\ Required(call.tool) \subseteq call.args
  /\ call.args \subseteq Advertised(call.tool)
  /\ call.wrong \cap call.args = {}

(***************************************************************************)
(* What is advertised is served: a call that follows the schema reaches    *)
(* its core, unless it gives a follow-up operation a field of another one. *)
(***************************************************************************)
AdvertisedIsServed ==
  (result # None /\ request.method = "tools/call" /\ Conforms(request.call)) =>
    \/ result.dispatched
    \/ /\ request.call.tool = "followup"
       /\ ~(request.call.args \subseteq {"target", "operation"} \cup WireFields(request.call.operation))

(***************************************************************************)
(* And nothing else is: a core is not reached with an argument that is not *)
(* advertised, but for the decision that a follow-up refresh may carry,    *)
(* nor without one that is required.                                       *)
(***************************************************************************)
ServedIsAdvertised ==
  (result # None /\ result.dispatched) =>
    LET call == request.call
    IN  /\ Required(call.tool) \subseteq call.args
        /\ call.args \subseteq Advertised(call.tool) \cup
             (IF call.tool = "followup" /\ call.operation = "refresh" THEN {Decision} ELSE {})
=============================================================================
