----------------------------- MODULE MCSurfaces -----------------------------
(***************************************************************************)
(* What the surfaces are asked in a run: requests, files and machines that *)
(* are a step or two from those each of them treats differently.           *)
(***************************************************************************)
EXTENDS Surfaces, SequencesExt

TwoPlaces ==
  [i \in {"cli", "app"} |->
    [platform |-> "linux", source |-> "path", trusted |-> FALSE, metadata |-> {}]]

-----------------------------------------------------------------------------
Raw(kind, url, status, prose, structured) ==
  [kind |-> kind, url |-> url, status |-> status, prose |-> prose, to |-> "v1",
   structured |-> structured, official |-> TRUE, origin_matches |-> TRUE]

Release == Raw("release", "u1", "none", "plain", "linked")
Tag     == Raw("tag", "u1", "none", "plain", "linked")
Issue   == Raw("issue", "u2", "none", "plain", "linked")
Hostile == Raw("pr", "u3", "maintainer", "instruction", "linked")
Other   == Raw("commit", "u4", "none", "plain", "unlinked")

RawLists ==
  {<< >>, << Release, Tag >>, << Release, Release >>, << Issue, Hostile >>,
   << Other, Release >>, << Release, Tag, Issue >>,
   << [Release EXCEPT !.kind = "blog"] >>, << Release, [Tag EXCEPT !.official = FALSE] >>,
   << [Release EXCEPT !.origin_matches = FALSE] >>, << [Tag EXCEPT !.structured = "malformed"] >>}

-----------------------------------------------------------------------------
(* RescueCli: what a command needs, one word more or less, two words on    *)
(* one argument, every state of the files, and what says each call of the  *)
(* server, every argument by its word.                                     *)
Words == INSTANCE RescueCli WITH Requests <- {}

Command(tool, words) ==
  [tool |-> tool, words |-> words, operation |-> "status", file |-> "good", attachments |-> "good",
   body |-> {}, plugin_data |-> FALSE, call |-> None]

CommandFor(tool, args) ==
  [n \in DOMAIN Words!Positionals(tool) |-> Words!Word("positional", "good")]
  \o FoldSet(LAMBDA a, words : Append(words, Words!WordFor(tool, a)), << >>, args \ ToSet(Words!Positionals(tool)))

Shortest(tool) == CommandFor(tool, ToSet(Words!Positionals(tool)) \cup Words!Needed(tool))

AllFlags == {t.flag : t \in UNION {Words!WordsOf(tool) : tool \in Mcp!Tools}} \cup {"positional", "unknown"}

Values == {"good", "other", "odd", "empty", "bare"}

TwoWords(tool) ==
  UNION {{<< Words!Word(p[1].flag, v), Words!Word(p[2].flag, x) >> : v \in Values, x \in Values} :
           p \in {q \in Words!WordsOf(tool) \X Words!WordsOf(tool) : q[1].arg = q[2].arg \/ q[1].flag = "request"}}

CliFiles == {"good", "absent", "large", "malformed"}

CliAsked ==
  UNION {{Command(t, Append(Shortest(t), Words!Word(f, v))) : f \in AllFlags, v \in Values \ {"bare"}}
         \cup {Command(t, Append(Shortest(t), Words!Word(f, "bare"))) : f \in AllFlags \ {"positional"}}
         \cup {Command(t, Shortest(t) \o p) : p \in TwoWords(t)}
         \cup {Command(t, RemoveAt(Shortest(t), n)) : n \in DOMAIN Shortest(t)}
         \cup {Command(t, ReplaceAt(Shortest(t), n, [Shortest(t)[n] EXCEPT !.value = v])) :
                 n \in DOMAIN Shortest(t), v \in {"odd", "empty"}}
         \cup {[Command(t, Shortest(t) \o w) EXCEPT !.file = f, !.attachments = a, !.plugin_data = TRUE] :
                 f \in CliFiles, a \in CliFiles,
                 w \in {<< >>, << Words!Word("attachments", "good") >>, << Words!Word("confirmation", "other") >>}}
         : t \in Mcp!Tools}
  \cup {[Command("followup", Shortest("followup") \o w) EXCEPT !.file = f, !.body = b, !.operation = o] :
          f \in CliFiles, o \in Mcp!FollowupOperations \cup {"unknown"},
          w \in {<< Words!Word("request", "good") >>, << Words!Word("request", "good"), Words!Word("issue", "good") >>,
                 << Words!Word("event-json", "good") >>},
          b \in {{}, {"issue"}, {"event"}, {"event", Mcp!Decision}, {"now_ms"}, {"target"}}}
  \cup {[Command(c.tool, CommandFor(c.tool, c.args)) EXCEPT !.operation = c.operation, !.call = c] :
          c \in {d \in Mcp!Calls : d.wrong = {} /\ d.tool \in Mcp!Tools /\ d.top = {"name", "arguments"}}}

-----------------------------------------------------------------------------
(* The file systems: the home and the profile in it may be links, as may   *)
(* the temporary root and what is in it; the profile may lead into it.     *)
Dirs == {<< >>, << "tmp" >>, << "tmp", "w" >>, << "tmp", "w", "d" >>, << "home" >>,
         << "home", ".codex" >>, << "home", ".codex", "p" >>, << "data" >>,
         << "data", ".codex" >>, << "usr" >>, << "mnt" >>, << "mnt", "c" >>, << "mnt", "c", "w" >>}

Linked(links) ==
  [dirs |-> {d \in Dirs : \A l \in DOMAIN links : ~(\E n \in 1..Len(d) : SubSeq(d, 1, n) = l)},
   links |-> links, foreign |-> {}, home |-> << "home" >>, tmpdir |-> << "tmp" >>]

FileSystems ==
  LET plain == Linked(<< >>)
      To(l, d) == Linked([p \in {l} |-> d])
  IN  {plain, [plain EXCEPT !.tmpdir = << "data" >>], [plain EXCEPT !.tmpdir = << "home" >>],
       [plain EXCEPT !.foreign = {<< "tmp", "w" >>}],
       To(<< "home", ".codex" >>, << "tmp", "w" >>),
       To(<< "home", ".codex" >>, << "tmp", "gone" >>), To(<< "home" >>, << "data" >>),
       Linked([p \in {<< "home" >>, << "data", ".codex" >>} |->
                 IF p = << "home" >> THEN << "data" >> ELSE << "tmp", "w" >>]),
       To(<< "tmp" >>, << "data" >>), To(<< "tmp", "w" >>, << "home", ".codex" >>),
       To(<< "tmp", "w" >>, << "usr" >>), To(<< "tmp", "w" >>, << "mnt", "c" >>),
       To(<< "tmp", "w", "d" >>, << "home" >>)}

Host(platform, wsl, injected, keyed) ==
  [platform |-> platform, wsl |-> wsl, injected |-> injected, keyed |-> keyed]

GateAsked ==
  [target : Dirs \cup {<< "tmp", "new" >>}, host : {Host("linux", FALSE, None, None)},
   seam : BOOLEAN, markers : {<< {}, {} >>}, caller : {"public"}, known_managed : {FALSE},
   mechanism : {"config"}, policy : {FALSE}, now : FileSystems, later : FileSystems]
  \cup
  [target : {<< "tmp", "w" >>}, seam : BOOLEAN, caller : {"public", "omitted", "granted"},
   host : {Host("win32", FALSE, None, None), Host("win32", FALSE, "linux", None),
           Host("linux", FALSE, "win32", None), Host("darwin", FALSE, None, "win32"),
           Host("linux", TRUE, None, None), Host("aix", FALSE, None, None)},
   markers : {{"profile"}, {"registered"}, {}} \X
             {{"profile"}, {"profile", "binary"}, {"profile", "system"}, {"registered", "alias"},
              {"registered", "binary"}, {}},
   known_managed : BOOLEAN, mechanism : {"plugin_cache", "protected_process", "config", "none"},
   policy : BOOLEAN, now : {Linked(<< >>)}, later : {Linked(<< >>)}]

-----------------------------------------------------------------------------
(* Incidents a step or two away from what each crash family looks like,    *)
(* and one to which every earlier stage of the diagnosis answers.          *)
Incident ==
  [os |-> "windows", surface |-> "desktop", phase |-> "navigation", class |-> "Other",
   words |-> {"browser", "crash"}, feature |-> TRUE, browser_control |-> FALSE, frame |-> FALSE,
   version |-> TRUE, declared_ast |-> FALSE, metadata |-> None]

CrashMarks ==
  LET no == [exception |-> None, module |-> None, symbol |-> None, offset |-> None, gpuExit |-> None,
             gpuRelaunch |-> None, interaction |-> None, page |-> None, concurrency |-> None,
             component |-> None, isolation |-> FALSE, probe |-> FALSE]
  IN  {no,
       [no EXCEPT !.exception = "c0000005", !.module = "chrome.dll", !.symbol = "CrBrowserMain",
                  !.offset = "2e08f46", !.interaction = "neutral_dom_ready", !.page = "neutral",
                  !.concurrency = "single", !.component = "in_app_browser"],
       [no EXCEPT !.exception = "c06d007f", !.module = "codex.exe", !.interaction = "link_click",
                  !.page = "neutral"],
       [no EXCEPT !.gpuExit = "101457950", !.gpuRelaunch = "18", !.interaction = "media_canvas",
                  !.page = "media"],
       [no EXCEPT !.interaction = "webview_attach", !.concurrency = "multi_side_chat",
                  !.page = "neutral"],
       [no EXCEPT !.page = "complex_login", !.interaction = "neutral_dom_ready",
                  !.component = "in_app_browser"]}

MarkValues ==
  [exception |-> {None, "c0000005", "c06d007f", "other"}, module |-> {None, "chrome.dll", "other"},
   symbol |-> {None, "CrBrowserMain"}, offset |-> {None, "2e08f46"},
   gpuExit |-> {None, "101457950", "other"}, gpuRelaunch |-> {None, "18", "other"},
   interaction |-> {None, "unknown", "neutral_dom_ready", "link_click", "webview_attach"},
   page |-> {None, "neutral", "media", "complex_login"},
   concurrency |-> {None, "unknown", "single", "multi_side_chat"},
   component |-> {None, "in_app_browser", "other"}, isolation |-> BOOLEAN, probe |-> BOOLEAN]

Metadata ==
  {[[base EXCEPT ![f] = v] EXCEPT ![g] = w] :
     base \in CrashMarks, << f, v, g, w >> \in
       UNION {{f} \X MarkValues[f] \X {g} \X MarkValues[g] :
                << f, g >> \in (DOMAIN MarkValues) \X (DOMAIN MarkValues)}}

\* Plugin caches up to two steps from one that is sound, overwritten soundly or
\* not, or corrupted; and the files as they may be read.
Sound ==
  [listed |-> TRUE, dependency_install_failure |-> FALSE, version |-> 1, required_version |-> 1,
   component_version |-> 1, provenance |-> "bundled", generation |-> 1, required_generation |-> 1,
   measured |-> "good", expected |-> "good", trusted |-> "good", rebuild |-> "good",
   bundled |-> "good", intent |-> None, overwrote |-> FALSE, recon_intent |-> None]

Corrupt     == [Sound EXCEPT !.measured = "bad"]
Overwritten == [Sound EXCEPT !.intent = "own", !.recon_intent = "own", !.overwrote = TRUE]

SaysValues ==
  [listed |-> BOOLEAN, dependency_install_failure |-> BOOLEAN, version |-> {1, 2},
   component_version |-> {1, 2}, provenance |-> {"bundled", "shared_cache"},
   required_generation |-> {1, 2}, measured |-> {"good", "bad", "own"}, expected |-> {"good", "bad"},
   trusted |-> {"good", "bad"}, rebuild |-> {"good", "bad"}, bundled |-> {"good", "bad", None},
   intent |-> {"own", None}, overwrote |-> BOOLEAN, recon_intent |-> {"own", None}]

Cached(says) ==
  [says |-> says,
   doc |-> [d \in {"inventory", "manifest", "recon", "cache", "bundled", "trusted", "intent", "health"} |->
              IF d \in {"bundled", "intent"} /\ says[d] = None THEN "absent" ELSE "ok"]]

NoCache == [Cached(Sound) EXCEPT !.doc["inventory"] = "absent"]

Caches ==
  {Cached([[base EXCEPT ![f] = v] EXCEPT ![g] = w]) :
     base \in {Sound, Corrupt, Overwritten, [Overwritten EXCEPT !.measured = "bad", !.bundled = "bad"]},
     << f, v, g, w >> \in
       UNION {{f} \X SaysValues[f] \X {g} \X SaysValues[g] :
                << f, g >> \in (DOMAIN SaysValues) \X (DOMAIN SaysValues)}}
  \cup {[Cached(Corrupt) EXCEPT !.doc[d] = how] :
          d \in {"inventory", "manifest", "cache", "trusted", "health"}, how \in {"absent", "refused"}}
  \cup {[Cached(Corrupt) EXCEPT !.doc[d] = "refused"] : d \in {"recon", "bundled", "intent"}}

NoArtifact == [status |-> "absent", sha |-> None, blocks |-> 0]
Artifact(blocks) == [status |-> "present", sha |-> "art", blocks |-> blocks]

\* All that a crash of issue 32683 may share with others, and one mark of it.
OneMark ==
  [Incident EXCEPT !.words = {"browser", "crash", "desktop", "windows", "dom"},
     !.metadata = [exception |-> "c0000005", module |-> None, symbol |-> None, offset |-> None, gpuExit |-> None,
                   gpuRelaunch |-> None, interaction |-> "neutral_dom_ready", page |-> "neutral",
                   concurrency |-> "single", component |-> "in_app_browser", isolation |-> FALSE, probe |-> FALSE]]

DiagnosisAsked ==
  [incident : {[i EXCEPT !.metadata = m] : m \in Metadata,
                 i \in {Incident, [Incident EXCEPT !.words = {}, !.feature = FALSE, !.version = FALSE],
                        [Incident EXCEPT !.words = {"browser", "crash", "login", "cloudflare",
                                                    "disable", "gpu", "side", "chat"}]}},
   defects : {<< >>}, cache : {NoCache}, artifact : {NoArtifact}, config : {"healthy"},
   preferred : {{}, {"33762"}, {"32094", "32683"}}]
  \cup
  [incident : {[[[Incident EXCEPT !.os = os] EXCEPT !.surface = s] EXCEPT !.metadata = m] :
                 os \in {"windows", "macos"}, s \in {"desktop", "cli"}, m \in CrashMarks \cup {None}},
   defects : {<< >>}, cache : {NoCache}, artifact : {NoArtifact}, config : {"healthy", "fault"},
   preferred : {{}}]
  \cup
  [incident : {[Incident EXCEPT !.class = c, !.phase = p, !.frame = f, !.browser_control = b,
                                !.declared_ast = d, !.feature = ft] :
                 c \in {"TypeError", "native_crash"}, p \in {"extension_handshake", "startup"},
                 f \in BOOLEAN, b \in BOOLEAN, d \in BOOLEAN, ft \in BOOLEAN},
   defects : {<< >>, [json |-> "wrong"], [error |-> "too_long", surface |-> "wrong"],
              [ast_signature_ids |-> "too_long"], [build_sha |-> "too_long", error |-> "wrong"]},
   cache : {NoCache, [NoCache EXCEPT !.doc["inventory"] = "refused"], Cached(Corrupt), Cached(Sound)},
   artifact : {NoArtifact, [status |-> "SIZE_LIMIT", sha |-> None, blocks |-> 1],
               [status |-> "SYMLINK_ESCAPE", sha |-> None, blocks |-> 1],
               Artifact(0), Artifact(1), Artifact(2)},
   config : {"healthy", "fault", "refused"}, preferred : {{}}]
  \cup
  [incident : {Incident}, defects : {<< >>}, cache : Caches, artifact : {NoArtifact, Artifact(1)},
   config : {"healthy", "fault"}, preferred : {{}}]
  \cup
  [incident : {[OneMark EXCEPT !.metadata = [@ EXCEPT ![f] = v]] :
                 << f, v >> \in UNION {{f} \X MarkValues[f] : f \in DOMAIN MarkValues}},
   defects : {<< >>}, cache : {NoCache}, artifact : {NoArtifact}, config : {"healthy"},
   preferred : {{}, {"32683"}, {"32094"}}]

-----------------------------------------------------------------------------
(* Control files: a model and up to two lines, and overrides of up to two  *)
(* lines; values, sections and spellings that the edits may confuse.       *)
Str(v)  == [type |-> "string", v |-> v]
Bool(v) == [type |-> "boolean", v |-> v]
Inline(entries) == [type |-> "table", entries |-> entries]

Assigned(path, value) == [kind |-> "assign", path |-> path, bare |-> TRUE, value |-> value]
Headed(path) == [kind |-> "header", path |-> path, bare |-> TRUE, value |-> Inline(<< >>)]

Policy    == << "shell_environment_policy" >>
PolicySet == << "shell_environment_policy", "set" >>

ModelLine == Assigned(<< "model" >>, Str("m1"))

ConfigLines ==
  LET other == Assigned(<< "model" >>, Str("m2"))
      entry == << [name |-> "browser_control", value |-> Bool("true")] >>
  IN  {other, [other EXCEPT !.bare = FALSE], Assigned(<< "model" >>, Bool("true")),
       Assigned(<< "model_provider" >>, Bool("true")), Assigned(<< "notify" >>, Bool("true")),
       Assigned(<< "legacy_experimental_shell" >>, Bool("true")),
       Assigned(<< "old_sandbox_mode_v0" >>, Str("m1")), Headed(<< "features" >>),
       Assigned(<< "browser_control" >>, Bool("true")), Assigned(<< "set" >>, Bool("true")),
       Assigned(<< "features", "browser_control" >>, Bool("false")),
       Assigned(<< "features", "model" >>, Bool("false")),
       Headed(Policy), [Headed(Policy) EXCEPT !.bare = FALSE], Headed(PolicySet),
       Assigned(<< "set" >>, Str("m1")), Assigned(<< "set" >>, Inline(<< >>)),
       Assigned(<< "set" >>, Inline(entry)), Assigned(PolicySet, Str("m1")),
       Assigned(PolicySet, Inline(<< [entry[1] EXCEPT !.value = Str("m1")] >>)),
       [ModelLine EXCEPT !.kind = "bad"]}

UpToTwo == {<< >>} \cup {<< a >> : a \in ConfigLines} \cup {<< a, b >> : a, b \in ConfigLines}

FeatureOn == << ModelLine, Headed(<< "features" >>), Assigned(<< "browser_control" >>, Bool("true")) >>

Files(primary, override) == [primary |-> primary, override |-> override, managed |-> FALSE]

Changed(files) ==
  {[files EXCEPT !.managed = TRUE],
   [files EXCEPT !.primary = << ModelLine, Assigned(<< "old_sandbox_mode_v0" >>, Str("m1")) >>]}

KeysInOrder ==
  << << "features", "browser_control" >>, << "features", "model" >>, << "model" >>,
     << "model_provider" >>, << "notify" >> >>

ConfigAsked ==
  {[files |-> f, later |-> Changed(f)] :
     f \in {Files(<< ModelLine >> \o lines, None) : lines \in UpToTwo}
           \cup {Files(p, lines) : p \in {<< ModelLine >>, FeatureOn}, lines \in UpToTwo}
           \cup {Files(FeatureOn, << a, b, c >>) :
                   a \in {Headed(<< "features" >>), Assigned(<< "model" >>, Str("m2"))},
                   b, c \in {Assigned(<< "browser_control" >>, Bool("false")), Headed(<< "features" >>),
                             Assigned(<< "features", "browser_control" >>, Bool("false")),
                             Assigned(<< "model" >>, Bool("true"))}}
           \cup {Files(p, << a >>) : p \in {None, << >>}, a \in ConfigLines}
           \cup {Files(<< ModelLine, Assigned(<< "features", "model" >>, Bool("false")) >>,
                         << ModelLine, Headed(<< "features" >>), a >>) : a \in ConfigLines}}

-----------------------------------------------------------------------------
(* Upstream requests: what is said, what was found, what is known of the   *)
(* doctor, who reviewed it, and where an instruction may stand.  A host    *)
(* acts on the plainer ones.                                               *)
Good == {"os", "codex_version", "technical_signals", "observed_facts"}

Similar(id, similarity, mechanism, url, official) ==
  [id |-> id, similarity |-> similarity, mechanism_match |-> mechanism, url |-> url, official |-> official]

At(issue, exact) == [issue |-> issue, exact |-> exact]

Problem ==
  [defects |-> << >>, injected |-> None, kind |-> "codex_product_bug", surface |-> "cli", platform |-> TRUE,
   given |-> Good, blank |-> FALSE, quality |-> "reliable", searched |-> TRUE, candidates |-> << >>,
   delta |-> << >>, doctor |-> None, decision |-> "not_requested", transport |-> None, now |-> 9,
   privacy |-> {"secrets_redacted", "paths_redacted", "session_excluded"}, incident |-> "i", host |-> "looks"]

CaseKinds == {"codex_product_bug", "product_support_question", "validated_security_vulnerability",
              "account_billing_private"}

FormList == << [filename |-> "1", role |-> "APP", safe |-> TRUE], [filename |-> "2", role |-> "EXTENSION", safe |-> TRUE],
               [filename |-> "3", role |-> "CLI", safe |-> TRUE], [filename |-> "4", role |-> "OTHER", safe |-> TRUE] >>

FormsOf(forms, fetched) ==
  [forms |-> forms, fetched |-> fetched, wellFormed |-> TRUE, integrity |-> << fetched, forms >>]

Renamed(i, f) == [FormList EXCEPT ![i] = f]

Transports ==
  {None, [answers |-> FALSE, snapshot |-> None]} \cup
  {[answers |-> TRUE, snapshot |-> s] :
     s \in {FormsOf(FormList, d) : d \in {1, 2, 9, 10, 11}}
           \cup {[FormsOf(FormList, 9) EXCEPT !.wellFormed = FALSE],
                 [FormsOf(FormList, 9) EXCEPT !.fetched = 8],
                 FormsOf(Tail(FormList), 9)}
           \cup {FormsOf(Renamed(3, f), 9) :
                   f \in [filename : {"1", "5"}, role : {"CLI", "APP", "DOCS"}, safe : BOOLEAN]}}

DoctorKey(top, name, depth) == [top |-> top, name |-> name, depth |-> depth]

Doctors ==
  {None, [shape |-> "list", keys |-> {}, redacted |-> {}]} \cup
  {[shape |-> "object", keys |-> keys, redacted |-> red] :
     red \in {{}, {"secrets_redacted", "paths_redacted"}},
     keys \in {{DoctorKey(top, top, 0), DoctorKey(top, name, d)} :
                 top \in {"listed", "plain"}, name \in {"listed", "plain", "sensitive"}, d \in 1..8}
             \cup {{}, {DoctorKey("sensitive", "sensitive", 0)},
                    {DoctorKey(top, top, 0) : top \in {"listed", "plain", "other"}}}}

ClosestTo(id) ==
  {Similar(id, s, m, None, TRUE) : s \in {"exact", "related", "none"}, m \in BOOLEAN}

Looks ==
  {[Problem EXCEPT !.defects = d] :
     d \in {[envelope |-> {"FORBIDDEN_PRIVACY_FIELD", "SCHEMA"}, case_kind |-> {"INVALID_CASE_KIND"}],
            [duplicate_search |-> {"CANDIDATE_URL_REFUSED", "EXTRA_FIELD"}],
            [user_reports |-> {"ARRAY_LIMIT"}, platform |-> {"STRING_LIMIT"}]}}
  \cup {[Problem EXCEPT !.kind = k, !.surface = s, !.platform = p, !.searched = q, !.privacy = v,
                        !.given = Good \ g, !.blank = b] :
          k \in CaseKinds, s \in {"cli", "ide", "desktop", "unknown"}, p \in BOOLEAN, q \in BOOLEAN,
          v \in SUBSET {"secrets_redacted", "paths_redacted", "session_excluded"}, b \in BOOLEAN,
          g \in {{}, {"os"}, {"codex_version"}, {"technical_signals"}}}
  \cup {[Problem EXCEPT !.kind = k, !.candidates = << a, b >>, !.delta = d, !.searched = q] :
          k \in CaseKinds, a \in ClosestTo(1), b \in ClosestTo(2), q \in BOOLEAN,
          d \in {<< >>, << FALSE >>, << FALSE, TRUE >>}}
  \cup {[Problem EXCEPT !.kind = k, !.injected = f, !.platform = p, !.delta = << TRUE >>, !.candidates = << a >>,
                        !.given = {"os", "arch", "unknown_reason", "codex_version", "version_unknown_reason",
                                   "technical_signals", "observed_facts", "user_reports", "hypotheses",
                                   "error_strings", "command_strings", "marker", "steps"}] :
          k \in CaseKinds, p \in BOOLEAN, a \in ClosestTo(1),
          f \in {"os", "arch", "unknown_reason", "codex_version", "version_unknown_reason",
                 "technical_signals", "observed_facts", "user_reports", "hypotheses", "error_strings",
                 "command_strings", "marker", "steps", "actual_behavior", "delta", "issue_id", "title"}}
  \cup {[Problem EXCEPT !.doctor = d, !.injected = f, !.privacy = v] :
          d \in Doctors, f \in {None, "doctor"}, v \in {{"session_excluded"}, Problem.privacy}}
  \cup {[Problem EXCEPT !.decision = d, !.transport = t, !.surface = s] :
          d \in {"not_requested", "approved", "denied"}, t \in Transports, s \in {"cli", "app", "other"}}
  \cup {[Problem EXCEPT !.quality = q, !.given = g] :
          q \in {"reliable", "once", "intermittent", "unknown"}, g \in {Good, Good \cup {"marker"}}}

Acts ==
  {[Problem EXCEPT !.candidates = << c >>, !.delta = d, !.host = "acts", !.privacy = p[1], !.kind = p[2]] :
     c \in {Similar(1, "exact", m, a[1], a[2]) :
              m \in BOOLEAN, a \in {<< None, TRUE >>, << At(2, TRUE), FALSE >>, << At(1, FALSE), TRUE >>}}
            \cup {Similar(1, "related", TRUE, None, TRUE)},
     d \in {<< >>, << TRUE >>},
     p \in {<< Problem.privacy, "codex_product_bug" >>, << {}, "codex_product_bug" >>,
            << Problem.privacy, "product_support_question" >>}}

Entries == << [privacy |-> Problem.privacy] >>

Asked == Looks \cup Acts

Manifests ==
  {[wellFormed |-> TRUE, entries |-> Entries, hash |-> Entries],
   [wellFormed |-> TRUE, entries |-> << >>, hash |-> Entries],
   [wellFormed |-> TRUE, entries |-> << [privacy |-> {"paths_redacted"}] >>, hash |-> None]}

Shipped == FormsOf(FormList, 2)

-----------------------------------------------------------------------------
(* Events with a thing or two that is odd, given twice, of issues followed *)
(* or not; candidates and what the user claims of them, three in a row.    *)
Ref(kind, issue) == [kind |-> kind, issue |-> issue]

Plain(asks) == [instruction |-> FALSE, asks |-> asks]

Event ==
  [object |-> TRUE, small |-> TRUE, forbidden |-> FALSE, extra |-> FALSE, schema |-> None,
   issue |-> Ref("url", 1), disposition |-> "needs_info", duplicate_of |-> None,
   prose |-> Plain({"request_logs"})]

Events ==
  LET refs == {Ref(k, 1) : k \in {"number", "other_host", "other_repository", "query", "pull", "zero"}}
      odd  == [object : BOOLEAN, small : BOOLEAN, forbidden : BOOLEAN, extra : BOOLEAN,
               schema : {None, 1}, issue : {None, Ref("url", 1)} \cup refs,
               disposition : {"needs_info", "duplicate", "unknown"},
               duplicate_of : {None, Ref("number", 2)} \cup refs, prose : {Event.prose}]
  IN  {e \in odd : Cardinality({f \in DOMAIN e : e[f] # Event[f]}) <= 2}

Said ==
  {[Event EXCEPT !.issue = Ref("number", i), !.disposition = d, !.duplicate_of = to, !.prose = p] :
     i \in {1, 2}, d \in {"duplicate", "closed"}, to \in {None, Ref("url", 2), Ref("number", 3)},
     p \in {Plain({}), Plain({"acknowledge_closure"}), [instruction |-> TRUE, asks |-> {"request_logs"}],
            Plain({"request_reproduction", "request_core_health"})}}

OfEvent(e, ledger) == [op |-> "process_event", ledger |-> ledger, event |-> e]

Fix ==
  [op |-> "validate_candidate", ledger |-> "ok", issue |-> Ref("number", 1), recipe |-> "r1",
   given |-> {"version", "recipe", "item", "profile", "baseline"}, odd |-> {}, legacy |-> "absent",
   measured |-> "positive", item |-> "d1"]

Fixes ==
  LET all == [op : {"validate_candidate"}, ledger : {"ok", "canary_fails", "supersede_fails"},
              issue : {Ref("number", 1), Ref("query", 1)}, recipe : {"r1", "r2"},
              given : {Fix.given} \cup {Fix.given \ {g} : g \in Fix.given},
              odd : {{}, {"bad_version"}, {"snapshot_path"}}, legacy : {"absent", "file", "link"},
              measured : {"positive", "faulty", "core_broken", "inconclusive"},
              item : {None, "d1", "d2"}]
  IN  {c \in all : Cardinality({f \in DOMAIN c : c[f] # Fix[f]}) <= 2}

Claims ==
  [op : {"canary"}, executed : BOOLEAN, absent : BOOLEAN, core : BOOLEAN]
  \cup {[op |-> "supersede_recipe"]}

AllFiles == [f \in {"incident", "lifecycle", "config", "version", "package", "window", "log"} |-> "file"]

Target(files, stays, known) == [files |-> files, stays |-> stays, known_good |-> known]

ReplyAsked ==
  [calls : {<< OfEvent(e, "ok") >> : e \in Events}, following : {{1}},
   target : {Target(AllFiles, TRUE, FALSE)}]
  \cup
  [calls : {<< OfEvent([Event EXCEPT !.prose = [instruction |-> i, asks |-> a]], "ok") >> :
              i \in BOOLEAN, a \in {{x} : x \in {"request_logs", "request_reproduction", "request_version",
                                   "request_platform", "request_config_probe", "request_core_health"}}},
   following : {{1}}, target : {Target(f, s, FALSE) : s \in BOOLEAN,
     f \in {[[AllFiles EXCEPT ![a] = v] EXCEPT ![b] = w] : a \in {"incident", "version", "window"},
           b \in {"incident", "config", "package", "log"}, v \in {"none", "link", "behind_link"},
           w \in {"none", "link"}}}]
  \cup
  [calls : {<< OfEvent(e, l), OfEvent(f, "ok") >> : e \in Said, f \in Said,
              l \in {"ok", "busy", "save_fails"}}
           \cup {<< OfEvent(e, "ok"), OfEvent(f, "ok"), OfEvent(e, "ok") >> : e \in Said, f \in Said},
   following : {{1}, {1, 2}}, target : {Target(AllFiles, TRUE, FALSE)}]
  \cup
  [calls : {<< a, b >> : a \in Fixes, b \in Claims \cup
              {[Fix EXCEPT !.item = i, !.recipe = r, !.measured = m] :
                 i \in {"d1", "d2"}, r \in {"r1", "r2"}, m \in {"positive", "faulty"}}}
           \cup {<< c, Fix, d >> : c \in Claims, d \in Claims \cup {[Fix EXCEPT !.item = "d2"]}},
   following : {{}}, target : {Target(AllFiles, TRUE, k) : k \in BOOLEAN}]

-----------------------------------------------------------------------------
(* Installed apps and the updates that wait, on caps of two; and the first *)
(* bytes of an archive, about the numbers that are written for them.       *)
Bytes(b, size) == [kind |-> "file", bytes |-> b, size |-> size]

App(version, key, asar) ==
  [kind |-> "dir", bundle |-> "com.openai.codex", version |-> version, key |-> key,
   files |-> [info_plist |-> Bytes(version, 1), app_asar |-> Bytes(asar, 2),
              codex_binary |-> Bytes("b", 1), code_resources |-> Bytes("c", 1)],
   header |-> [file |-> 24, outer |-> 4, pickle |-> 16, inner |-> 12, json |-> 8, text |-> "tree"],
   tree |-> << >>, native |-> [kind |-> "absent", names |-> << >>]]

Here  == App(<< 1, 0 >>, "k", "a1")
There == App(<< 1, 1 >>, "k", "a2")

Session(app, downloads) == [kind |-> "dir", app |-> app, downloads |-> downloads]
Download(app) == [kind |-> "dir", app |-> app]

Machine(apps, sessions, reads) ==
  [op |-> "compare", supported |-> TRUE, installed |-> apps, sessions |-> sessions, reads |-> reads,
   snapshot |-> [loads |-> TRUE, items |-> {[from |-> None, to |-> None], [from |-> << 1, 1 >>, to |-> None]}]]

Pair(here, there) == Machine(<< here >>, << Session(None, << Download(there) >>) >>, 8)

Apps == {None, There, [There EXCEPT !.key = "other"], [There EXCEPT !.kind = "link"]}

Searches ==
  LET downloads == {<< >>, << Download(There) >>, << [kind |-> "file"], Download(None), Download(There) >>,
                    << [kind |-> "link"], Download(There) >>, << Download(None), Download(There), Download(There) >>}
      sessions  == {Session(a, d) : a \in Apps, d \in downloads} \cup {[kind |-> "link"], [kind |-> "file"]}
  IN  {Machine(<< Here >>, << s, t >>, 8) : s \in sessions, t \in sessions}
      \cup {Machine(<< Here >>, << s, [kind |-> "link"], t >>, 8) : s \in sessions, t \in sessions}
      \cup {Machine(i, << Session(a, << >>), Session(None, << Download(There) >>) >>, 8) :
              a \in Apps, i \in {<< >>, << [Here EXCEPT !.bundle = "other"], Here >>, << [Here EXCEPT !.key = None] >>}}
      \cup {[Machine(<< Here >>, << >>, 8) EXCEPT !.supported = FALSE]}

Releases ==
  {Pair([Here EXCEPT !.version = v], [There EXCEPT !.version = w]) :
     v \in {<< 1 >>, << 1, 0 >>, << 1, 2 >>, << 2 >>}, w \in {None, << 1 >>, << 1, 0 >>, << 1, 2 >>, << 1, 10 >>}}

Reads ==
  LET files == {Bytes("a1", 2), Bytes("a2", 2), Bytes("a3", 5), Bytes("a4", 9)}
  IN  {[Pair([Here EXCEPT !.files.app_asar = f], [There EXCEPT !.files.app_asar = g]) EXCEPT !.reads = n] :
         f \in files, g \in files, n \in 0..8}

Leaf(depth, name, hash, size) ==
  [kind |-> "file", depth |-> depth, path |-> name, base |-> name, hash |-> hash, size |-> size]
Branch(kind, depth) == [kind |-> kind, depth |-> depth]

\* A node stands under one that may hold it.
IsTree(t) ==
  \A i \in DOMAIN t : IF i = 1 THEN t[i].depth = 0
                     ELSE t[i].depth <= IF t[i - 1].kind = "file" THEN t[i - 1].depth ELSE t[i - 1].depth + 1

Nodes ==
  {<< >>} \cup {<< Branch(k, 0), n, m >> :
     k \in {"dir", "refused"},
     n \in {Branch("dir", 1), Leaf(1, "a.node", None, 1), Leaf(0, "package.json", "h1", 1)},
     m \in {Leaf(2, "b.node", None, 1), Leaf(0, "package.json", "h2", 1), Leaf(1, "c.node", None, 1),
            Branch("dir", 1), Leaf(0, "package.json", None, 1), Leaf(1, "index.html", "h1", 2)}}
  \cup {<< Leaf(0, "a.node", None, 1), Leaf(0, "b.node", None, 1), Leaf(0, "c.node", None, 1), n >> :
          n \in {Branch("dir", 0), Leaf(0, "index.html", "h1", 1), Leaf(0, "index.html", "h1", 2)}}
  \cup {<< Leaf(0, "index.html", h, 1) >> : h \in {None, "h1", "h2"}}

Trees == {t \in Nodes : IsTree(t)}

Archives ==
  {Pair([Here EXCEPT !.tree = s], [There EXCEPT !.tree = t]) : s \in Trees, t \in Trees}
  \cup {Pair([Here EXCEPT !.header.text = a], [There EXCEPT !.header.text = b]) :
          a \in {"tree", "none"}, b \in {"tree", "none"}}

Natives ==
  LET name(n, k) == [name |-> n, kind |-> k]
      lists == {<< >>, << name("a.node", "module") >>, << name("a.node", "link"), name("b.node", "module") >>,
                << name("a.node", "module"), name("b.node", "module"), name("c.node", "module") >>,
                << name("a.txt", "other"), name("b.node", "module"), name("c.node", "module") >>}
      dirs  == [kind : {"dir"}, names : lists]
               \cup [kind : {"link", "file", "unreadable", "absent"}, names : {<< >>}]
  IN  {Pair([Here EXCEPT !.native = d], [There EXCEPT !.native = e]) : d \in dirs, e \in dirs}

Headers ==
  [op : {"header"},
   header : [file : {12, 16, 20, 24, 28, 32}, outer : {4}, pickle : {8, 11, 12, 15, 16, 20, 24},
             inner : {4, 8, 11, 12, 16}, json : 0..13, text : {"tree", "none"}]
            \cup [file : {24}, outer : {8}, pickle : {16}, inner : {12}, json : {8}, text : {"tree"}]]

UpdateAsked == Searches \cup Releases \cup Reads \cup Archives \cup Natives \cup Headers

ThreeNames == << "a.node", "b.node", "c.node" >>

-----------------------------------------------------------------------------
(* Enumeration: a directory a and one after it on the search path, either  *)
(* of which may be a link or lead to the Windows host; a bundle with the   *)
(* binary in it; a package with a bin; a second profile.                   *)
Name(kind, version) == [kind |-> kind, version |-> version]

Directory(kind, host, files) == [kind |-> kind, host |-> host, files |-> files, leading |-> {}]

Codex == "codex" :> Name("file", None)
Told(v) == "version.json" :> Name("file", v)

Firsts ==
  {Directory("missing", "no", << >>), Directory("link", "no", Codex @@ Told("v1")),
   Directory("link", "leads", Codex @@ Told("v1")), Directory("dir", "shape", Codex @@ Told("v1")),
   Directory("dir", "leads", Codex @@ Told("v1")), Directory("dir", "no", Codex @@ Told("v1")),
   Directory("dir", "no", "codex" :> Name("link", None)),
   [Directory("dir", "no", ("codex" :> Name("link", None)) @@ Told("v1")) EXCEPT !.leading = {"codex"}],
   Directory("dir", "no", Codex @@ ("version.json" :> Name("link", "v1"))),
   Directory("dir", "no", ("codex" :> Name("dir", None)) @@ ("codex.exe" :> Name("file", None)))}

Seconds == {Directory("dir", "no", Codex @@ Told("v1")), Directory("dir", "no", Codex @@ Told("v2")),
            Directory("dir", "leads", Codex)}

Package == {Directory("dir", "no", "package.json" :> Name("file", "v2")), Directory("link", "no", << >>),
            Directory("dir", "shape", "package.json" :> Name("file", "v2"))}

Binaries == {Directory("dir", "no", Codex), Directory("missing", "no", << >>)}

Worlds ==
  {("a" :> a) @@ ("b" :> b) @@ ("pkg" :> p) @@ ("pkgbin" :> n)
   @@ ("app" :> Directory("dir", "no", "Info.plist" :> Name("file", "v1")))
   @@ ("res" :> Directory("dir", "no", Codex))
   @@ ("home" :> Directory("dir", "no", "config.toml" :> Name("file", None)))
   : a \in Firsts, b \in Seconds, p \in Package, n \in Binaries}

InDir(d) == << d, "codex" >>

Computer(platform, path, desktop, registered) ==
  [platform |-> platform, world |-> None, path |-> path, desktop |-> desktop, cli |-> << >>, msix |-> << >>,
   packages |-> << "pkg" >>, registered |-> registered, profiles |-> << >>, max |-> 8]

WindowsComputer ==
  [Computer("windows", << "a", "b" >>, << InDir("res") >>, << InDir("a") >>) EXCEPT
     !.cli = << InDir("res") >>, !.msix = << InDir("b") >>,
     !.profiles = << [alias |-> "P1", root |-> "a"], [alias |-> "P2", root |-> "home"] >>]

Computers ==
  {Computer("macos", << "a", "res" >>, << InDir("res") >>, << >>),
   Computer("linux", << "a", "b", "a" >>, << >>, << InDir("b") >>),
   [Computer("linux", << "a", "b" >>, << >>, << InDir("a") >>) EXCEPT !.max = 1],
   Computer("wsl", << "b", "a" >>, << >>, << InDir("a"), InDir("b") >>),
   WindowsComputer, [WindowsComputer EXCEPT !.max = 3]}

PlaceAsked == {[m EXCEPT !.world = w] : m \in Computers, w \in Worlds}

Seen ==
  {[process |-> p, log |-> l, launch |-> None, version |-> v] :
     p \in {None, InDir("a"), InDir("elsewhere")}, l \in {None, InDir("b")}, v \in {None, "v1"}}

Directories == {"a", "b", "pkg", "app", "res", "home", "pkgbin"}

StandsIn ==
  [d \in Directories |-> CASE d = "pkgbin" -> "pkg" [] d = "res" -> "app" [] OTHER -> None]

BelongsTo == [d \in Directories |-> IF d \in {"app", "res"} THEN "app" ELSE None]

-----------------------------------------------------------------------------
(* Impact: changes that name a platform, a version, a setting, a component *)
(* or a surface of this installation or of another, alone and in pairs.    *)
Change(kind, platforms, from, keys, comps, surfaces) ==
  [id |-> "e1", mapper |-> TRUE, kind |-> kind, from |-> from, to |-> None, platforms |-> platforms,
   config_keys |-> keys, component_ids |-> comps, artifact_aliases |-> << >>, surfaces |-> surfaces]

Changes ==
  {Change(k, p, f, << >>, << >>, s) : k \in {"release", "issue"}, p \in {<< >>, << "macos" >>, << "linux" >>},
     f \in {None, "1"}, s \in {<< >>, << "desktop" >>, << "cli", "desktop" >>}}
  \cup {Change("pr", p, None, k, c, s) : p \in {<< >>, << "linux" >>}, k \in {<< >>, << "k1", "k2" >>},
          c \in {<< >>, << "f1", "p1" >>}, s \in {<< >>, << "desktop" >>}}
  \cup {[Change("commit", << >>, None, << >>, << >>, << "desktop" >>) EXCEPT !.artifact_aliases = << "a1" >>],
        [Change("release", << "linux" >>, "1", << >>, << >>, << >>) EXCEPT !.mapper = FALSE]}

Locals ==
  {[os |-> "macos", surface |-> "cli", version |-> v, config_keys |-> k, features |-> f, aliases |-> a]
   : v \in {None, "1"}, k \in {{}, {"k1", "k2"}}, f \in {{}, {"p1"}, {"f1", "p1"}}, a \in {{}, {"a1"}}}

Assessment(l, items) ==
  [local |-> l, items |-> items, disclosure |-> "approved", transport |-> TRUE, payload |-> {}]

OneIsAPlugin == [f \in {"f1", "p1"} |-> IF f = "p1" THEN "plugin" ELSE "none"]

ImpactAsked ==
  {Assessment(l, << a, [b EXCEPT !.id = i] >>) : l \in Locals, i \in {"e1", "e2"}, a \in Changes,
     b \in {Change("release", << >>, "1", << "k1" >>, << >>, << >>), Change("pr", << >>, None, << >>, << "p1" >>, << "cli" >>),
            Change("issue", << "macos" >>, None, << >>, << "f1" >>, << >>),
            [Change("issue", << >>, None, << >>, << >>, << >>) EXCEPT !.mapper = FALSE]}}
  \cup {[Assessment(l, s) EXCEPT !.disclosure = d, !.payload = p] :
          l \in {None} \cup {x \in Locals : x.version = "1" /\ x.aliases = {}},
          s \in {None, << Change("release", << >>, "1", << >>, << >>, << >>) >>},
          d \in {"approved", "refused"}, p \in {{}, {"add_edges"}}}

-----------------------------------------------------------------------------
(* PageAnalysis: pages that name this problem, another platform, surface   *)
(* or mechanism, or none; commands of which some are refused, alone, in a  *)
(* block, or beyond what is kept of a block.                               *)
Line(name, shell, shim, refused, block) ==
  [name |-> name, shell |-> shell, fix |-> shim, shim |-> shim, refused |-> refused, config |-> FALSE,
   conclusion |-> FALSE, block |-> block]

Shim == Line("remove the shim", FALSE, TRUE, FALSE, 0)
Sudo == Line("sudo", TRUE, FALSE, TRUE, 0)
Note == Line("note", FALSE, FALSE, FALSE, 0)

Fenced(lines) == [n \in DOMAIN lines |-> [lines[n] EXCEPT !.block = 1]]

Writings ==
  {<< >>, << Shim >>, << Sudo >>, Fenced(<< Shim, Sudo >>), Fenced(<< Shim, Note, Sudo >>),
   << [Note EXCEPT !.conclusion = TRUE] >>, Fenced(<< [Note EXCEPT !.config = TRUE] >>) \o << Sudo, Sudo, Shim >>}

Text(words, symbols, errors, lines) ==
  [words |-> words, symbols |-> symbols, errors |-> errors, lines |-> lines, instruction |-> FALSE]

NoText == Text({}, {}, {}, << >>)

Envelope(title, text) ==
  [defects |-> {}, mode |-> "public", host |-> "forum", title |-> title, text |-> text]

Envelopes ==
  {Envelope([Text(t, {}, {}, << >>) EXCEPT !.instruction = (t = {"codex"})], Text(w, s, e, l)) :
     t \in {{}, {"codex"}},
     w \in {{}, {"windows"}, {"windows", "macos"}, {"linux"}, {"browser_control"}, {"cli"}, {"desktop", "billing"},
            {"chatgpt"}, {"session"}, {"billing"}},
     s \in {{}, {"process-shim"}, {"chrome.dll"}, {"module_initialization", "process-shim"}},
     e \in {{}, {"named"}, {"named protected", "protected"}, {"other"}}, l \in Writings}

Incidents ==
  {None,
   [os |-> "windows", surface |-> "desktop", ast |-> {"process-shim"}, symbols |-> {"module_initialization"},
    errors |-> {"named", "named protected"}, protected |-> TRUE],
   [os |-> "macos", surface |-> "cli", ast |-> {}, symbols |-> {"chrome.dll"}, errors |-> {"other"},
    protected |-> FALSE]}

Reading(e, l, decision, transport, response) ==
  [envelope |-> e, local |-> l, decision |-> decision, transport |-> transport, response |-> response]

OnePage == Envelope(NoText, Text({"windows"}, {"process-shim"}, {"named"}, << Shim >>))

PageAsked ==
  {Reading(e, l, "not_requested", FALSE, None) : e \in Envelopes, l \in Incidents}
  \cup {Reading([OnePage EXCEPT !.mode = m, !.defects = d, !.host = h], l, c, t, r) :
          m \in {"public", "logged_visible"}, d \in {{}, {"INVALID_TITLE", "EXTRA_KEY"}},
          h \in {"forum", "chatgpt.com"}, l \in Incidents, c \in {"approved", "refused"}, t \in BOOLEAN,
          r \in {None} \cup {[title |-> None, text |-> x, host |-> y, defects |-> z] :
                  x \in {None, Text({"linux"}, {}, {}, << >>)}, y \in {None, "forum", "chatgpt.com"},
                  z \in {{}, {"VISIBLE_TEXT_LIMIT"}}}}

=============================================================================
