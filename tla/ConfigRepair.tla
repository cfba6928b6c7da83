------------------------------ MODULE ConfigRepair ------------------------------
(***************************************************************************)
(* The control files of Codex (src/core/config): how the primary and the   *)
(* override are parsed and validated, which fault is reported, and how the *)
(* registered set/remove repairs (src/core/recovery/config-repair.ts) edit *)
(* them, line by line, behind a capsule that is bound to what was read.    *)
(*                                                                         *)
(* A document is a sequence of lines: a table header, an assignment or a   *)
(* line that does not parse.  Comments and blank lines are left out and a  *)
(* document ends in a newline.  A path is a sequence of names; `bare' says *)
(* that it is written without quotes and blanks.  An inline table is the   *)
(* sequence of its entries, no two of one name (it does not parse, else).  *)
(***************************************************************************)
EXTENDS Paths, Functions

CONSTANTS
  Requests,     \* [files, later]: what is there and what somebody may make of it
  MaxKeys,      \* MAX_CONFIG_DOCUMENT_KEYS
  MaxDepth,     \* MAX_CONFIG_TABLE_DEPTH
  KeyOrder,     \* keys that two files may both have, as their dotted names sort
  MaxPreviews,  \* how often a repair is previewed
  None          \* a file, a plan or an answer that is not there

VARIABLES request, run, result

Policy    == << "shell_environment_policy" >>
PolicySet == << "shell_environment_policy", "set" >>

Table == [type |-> "table", entries |-> << >>]
Header(path, bare)        == [kind |-> "header", path |-> path, bare |-> bare, value |-> Table]
Assign(path, bare, value) == [kind |-> "assign", path |-> path, bare |-> bare, value |-> value]

-----------------------------------------------------------------------------
(***************************************************************************)
(* toml-parse.ts: a document read line by line.  `paths' is what has been  *)
(* set, in that order, and `at' the table that is open.                    *)
(***************************************************************************)
Empty      == [ok |-> TRUE, paths |-> << >>, value |-> << >>, at |-> << >>, keys |-> 0]
Failed(st) == [st EXCEPT !.ok = FALSE]

Has(st, path) == path \in DOMAIN st.value

\* What has no value yet gets one; the others keep theirs and their place.
Put(st, paths, values) ==
  [st EXCEPT !.paths = @ \o paths,
             !.value = [p \in (DOMAIN @) \cup DOMAIN values |-> IF p \in DOMAIN @ THEN @[p] ELSE values[p]]]

Upto(path) == [n \in 1..Len(path) |-> SubSeq(path, 1, n)]

\* ensureTablePath: the tables above and at `path', made where they are missing.
EnsureTable(st, path) ==
  IF \E p \in Range(Upto(path)) : Has(st, p) /\ st.value[p].type # "table" THEN Failed(st)
  ELSE Put(st, Upto(path), [p \in Range(Upto(path)) |-> Table])

\* The value of an assignment: an inline table sets its entries as well.
PutValue(st, path, value) ==
  LET entry == [k \in DOMAIN value.entries |-> Append(path, value.entries[k].name)]
  IN  IF value.type # "table" THEN Put(st, << path >>, [p \in {path} |-> value])
      ELSE Put(st, << path >> \o entry,
               [p \in {path} \cup Range(entry) |->
                  IF p = path THEN Table
                  ELSE value.entries[CHOOSE k \in DOMAIN entry : entry[k] = p].value])

ReadLine(st, line) ==
  LET path   == st.at \o line.path
      parent == Front(path)
      opened == EnsureTable(st, parent)
  IN  CASE ~st.ok -> st
        [] st.ok /\ line.kind = "bad" -> Failed(st)
        [] st.ok /\ line.kind = "header" ->
             IF Len(line.path) > MaxDepth THEN Failed(st)
             ELSE [EnsureTable(st, line.path) EXCEPT !.at = line.path]
        [] OTHER ->
             IF \/ st.keys = MaxKeys
                \/ Len(line.path) > 1 /\ Len(parent) > MaxDepth
                \/ ~opened.ok
                \/ Has(opened, path)
             THEN Failed(st)
             ELSE [PutValue(opened, path, line.value) EXCEPT !.keys = @ + 1]

\* What has been read after each line.
Reading(lines) ==
  LET read[n \in 0..Len(lines)] == IF n = 0 THEN Empty ELSE ReadLine(read[n - 1], lines[n])
  IN  read

Parse(lines) == Reading(lines)[Len(lines)]

\* flattenTable: depth first, each table in the order its keys were set.
SetAt(doc, path) ==
  CHOOSE n \in DOMAIN doc.paths : doc.paths[n] = path /\ \A m \in 1..(n - 1) : doc.paths[m] # path

FlatBefore(doc, a, b) ==
  \/ IsStrictPrefix(a, b)
  \/ /\ ~IsPrefix(b, a)
     /\ \E n \in (DOMAIN a) \cap DOMAIN b :
          /\ SubSeq(a, 1, n - 1) = SubSeq(b, 1, n - 1) /\ a[n] # b[n]
          /\ SetAt(doc, SubSeq(a, 1, n)) < SetAt(doc, SubSeq(b, 1, n))

First(doc, S) == CHOOSE a \in S : \A b \in S \ {a} : FlatBefore(doc, a, b)

TooDeep(doc) == \E p \in DOMAIN doc.value : doc.value[p].type = "table" /\ Len(p) > MaxDepth

-----------------------------------------------------------------------------
(***************************************************************************)
(* validate.ts over schema.ts                                              *)
(***************************************************************************)
Obsolete == {<< "legacy_experimental_shell" >>, << "old_sandbox_mode_v0" >>}

Expected(path) ==
  CASE path \in {<< "model" >>, << "model_provider" >>} -> "string"
    [] path = << "notify" >> -> "boolean"
    [] path = PolicySet -> "string_table"
    [] path \in {Policy, << "features" >>} -> "table"
    [] Len(path) > 1 /\ path[1] = "features" -> "boolean"
    [] OTHER -> None

KnownTop(path) ==
  path[1] \in {"model", "model_provider", "notify", "shell_environment_policy", "features",
               "legacy_experimental_shell", "old_sandbox_mode_v0"}

Fault(class, key, keys) == [class |-> class, key |-> key, keys |-> keys]

NoFault == Fault("none", << >>, {})

\* The entries of shell_environment_policy.set that are not strings.
NotStrings(doc) ==
  {p \in DOMAIN doc.value :
     Len(p) = 3 /\ SubSeq(p, 1, 2) = PolicySet /\ doc.value[p].type # "string"}

WrongType(doc, path) ==
  LET type == doc.value[path].type
  IN  IF (type = "table" /\ path \in {Policy, << "features" >>}) \/ path \in Obsolete THEN FALSE
      ELSE IF path = PolicySet THEN type # "table" \/ NotStrings(doc) # {}
      ELSE Expected(path) = None \/ type # Expected(path)

\* validateConfigText
FaultIn(doc) ==
  LET unknown == {p \in DOMAIN doc.value : Len(p) = 1 /\ ~KnownTop(p)}
      wrong   == {p \in DOMAIN doc.value : WrongType(doc, p)}
      old     == Obsolete \cap DOMAIN doc.value
      OfKeys(class, S) == LET key == First(doc, S) IN Fault(class, key, {key})
  IN  IF ~doc.ok \/ TooDeep(doc) THEN Fault("syntax", << >>, {})
      ELSE IF unknown # {} THEN OfKeys("type", unknown)
      ELSE IF wrong # {}
      THEN LET key == First(doc, wrong)
           IN  IF key = PolicySet /\ doc.value[key].type = "table"
               THEN LET entry == First(doc, NotStrings(doc)) IN Fault("type", entry, {key, entry})
               ELSE Fault("type", key, {key})
      ELSE IF old # {} THEN OfKeys("obsolete", old)
      ELSE NoFault

Validate(lines) == FaultIn(Parse(lines))

\* Scalars set to different values in two documents that are valid.
Differing(a, b) ==
  {p \in (DOMAIN a) \cap DOMAIN b : "table" \notin {a[p].type, b[p].type} /\ a[p] # b[p]}

Conflicts(files) ==
  IF None \in {files.primary, files.override} THEN {}
  ELSE Differing(Parse(files.primary).value, Parse(files.override).value)

\* The first of some keys, as their dotted names sort.
SortedFirst(S) ==
  LET Named(n) == KeyOrder[n] \in S
  IN  KeyOrder[CHOOSE n \in DOMAIN KeyOrder :
                 Named(n) /\ \A m \in DOMAIN KeyOrder : Named(m) => n <= m]

-----------------------------------------------------------------------------
(***************************************************************************)
(* probe.ts: one fault, of the primary, of the override or of both.        *)
(***************************************************************************)
FaultOf(lines) == IF lines = None THEN NoFault ELSE Validate(lines)

Reported(primary, override, conflicts) ==
  IF primary # NoFault THEN [file |-> "primary", fault |-> primary]
  ELSE IF override = NoFault /\ conflicts # {}
  THEN [file |-> "override", fault |-> Fault("conflict", SortedFirst(conflicts), conflicts)]
  ELSE [file |-> "override", fault |-> override]

Probe(files) == Reported(FaultOf(files.primary), FaultOf(files.override), Conflicts(files))

-----------------------------------------------------------------------------
(***************************************************************************)
(* config-repair.ts: the edits, on the text.                               *)
(***************************************************************************)
\* Mutant: the section a line stands in is not looked at.
Names_Anywhere(line, section, key) ==
  /\ line.kind = "assign" /\ line.bare
  /\ \/ line.path = key
     \/ Len(key) = 2 /\ line.path = Tail(key)

\* The line is written as `key = ...', or dotted, or under its section.
Names(line, section, key) ==
  /\ line.kind = "assign" /\ line.bare
  /\ \/ line.path = key
     \/ Len(key) = 2 /\ line.path = Tail(key) /\ section = << key[1] >>

\* The loop over the lines: what is put out, the section as it is written (a
\* quoted one is none) and whether the key was met, which is emptied or left out.
Untouched == [out |-> << >>, section |-> << >>, met |-> FALSE]

EditLine(done, line, key, emptied) ==
  CASE line.kind = "header" ->
         [done EXCEPT !.out = Append(@, line), !.section = IF line.bare THEN line.path ELSE << >>]
    [] line.kind # "header" /\ Names(line, done.section, key) ->
         [done EXCEPT !.out = IF emptied THEN Append(@, Assign(line.path, TRUE, Table)) ELSE @,
                      !.met = TRUE]
    [] OTHER -> [done EXCEPT !.out = Append(@, line)]

Editing(lines, key, emptied) ==
  LET edit[n \in 0..Len(lines)] ==
        IF n = 0 THEN Untouched ELSE EditLine(edit[n - 1], lines[n], key, emptied)
  IN  edit

Edited(lines, key, emptied) ==
  LET done == Editing(lines, key, emptied)[Len(lines)]
  IN  IF done.met THEN done.out ELSE None

\* removeDottedKeyFromToml
RemoveKey(lines, key) == IF Len(key) > 2 THEN None ELSE Edited(lines, key, FALSE)

\* applySetShellEnvPolicyEmpty
SetPolicyEmpty(lines) == Edited(lines, PolicySet, TRUE)

Plan(capsule, file, key, next) == [id |-> capsule, file |-> file, key |-> key, next |-> next]

\* buildLiveConfigPlan: what a repair makes of the text that was opened.
LivePlan(lines, probe) ==
  LET fault == probe.fault
  IN  CASE lines # None /\ fault.class = "type" ->
             IF PolicySet \notin fault.keys \/ SetPolicyEmpty(lines) = None THEN None
             ELSE IF Validate(SetPolicyEmpty(lines)) # NoFault THEN None
             ELSE Plan("wrong-type-set", "primary", PolicySet, SetPolicyEmpty(lines))
        [] lines # None /\ fault.class = "obsolete" ->
             IF RemoveKey(lines, fault.key) = None THEN None
             ELSE IF ~Parse(RemoveKey(lines, fault.key)).ok THEN None
             ELSE Plan("obsolete-key-remove", probe.file, fault.key, RemoveKey(lines, fault.key))
        [] lines # None /\ fault.class = "conflict" ->
             IF RemoveKey(lines, fault.key) = None THEN None
             ELSE Plan("source-conflict-remove", "override", fault.key, RemoveKey(lines, fault.key))
        [] OTHER -> None

Write(files, file, lines) == [files EXCEPT ![file] = lines]

\* Mutant: the reload is taken for granted once the reported key is gone.
Verified_KeyOnly(files, plan, original) ==
  LET probe == Probe(files)
  IN  /\ probe.fault = NoFault \/ probe.fault.key # plan.key
      /\ files[plan.file] = plan.next /\ files[plan.file] # original

\* configStartupVerification
Verified(files, plan, original) ==
  /\ Probe(files).fault = NoFault
  /\ IF files.primary = None THEN files.override # None
     ELSE << "model" >> \in DOMAIN Parse(files.primary).value
  /\ files[plan.file] = plan.next /\ files[plan.file] # original

-----------------------------------------------------------------------------
(***************************************************************************)
(* engine.ts: previewConfigRepair, recomputeConfigBinding and applyRepair. *)
(* A capsule is what was read and what it will become; its number stands   *)
(* for the nonce.  A result keeps the files before and after.              *)
(***************************************************************************)
Init ==
  /\ request \in Requests
  /\ run = [files |-> request.files, capsules |-> << >>, consumed |-> None, moved |-> FALSE]
  /\ result = None

Result(op, code, capsule, after) ==
  [op |-> op, code |-> code, capsule |-> capsule, before |-> run.files, after |-> after]

\* The capsule of a preview; its plan is None where there is none to make.
Capsule(probe) ==
  [plan |-> LivePlan(run.files[probe.file], probe), number |-> Len(run.capsules) + 1,
   original |-> run.files[probe.file], reported |-> probe]

Preview ==
  /\ Len(run.capsules) < MaxPreviews
  /\ UNCHANGED request
  /\ \E capsule \in {Capsule(Probe(run.files))} :
       IF run.files.managed \/ capsule.plan = None
       THEN /\ result' = Result("preview", IF run.files.managed THEN "ADMIN_ACTION_REQUIRED"
                                           ELSE "NOT_APPLICABLE", None, run.files)
            /\ UNCHANGED run
       ELSE /\ run' = [run EXCEPT !.capsules = Append(@, capsule), !.moved = FALSE]
            /\ result' = Result("preview", "REPAIR_PREVIEWED", capsule, run.files)

\* Somebody edits a file, takes it away or brings the machine under management.
Move ==
  /\ ~run.moved
  /\ \E files \in request.later :
       files # run.files /\ run' = [run EXCEPT !.files = files, !.moved = TRUE]
  /\ result' = None
  /\ UNCHANGED request

\* Mutant: the text is bound, the plan is not made again.
Binding_TextOnly(capsule) ==
  IF run.files[capsule.plan.file] = None THEN "CANDIDATE_NOT_FOUND"
  ELSE IF run.files[capsule.plan.file] # capsule.original THEN "AUTH_INVALID"
  ELSE "ok"

\* refuseConsumedToken and recomputeConfigBinding
Binding(capsule) ==
  LET lines == run.files[capsule.plan.file]
  IN  IF run.consumed = capsule.number THEN "AUTH_REPLAY"
      ELSE IF lines = None THEN "CANDIDATE_NOT_FOUND"
      ELSE IF lines # capsule.original THEN "AUTH_INVALID"
      ELSE IF run.files.managed THEN "ADMIN_ACTION_REQUIRED"
      ELSE IF LivePlan(lines, Probe(run.files)) # capsule.plan THEN "AUTH_INVALID"
      ELSE "ok"

\* A capsule that fails its verification is rolled back and may be used again.
ApplyAs(capsule, binding, written) ==
  LET passed == Verified(written, capsule.plan, capsule.original)
  IN  /\ result' = IF binding # "ok" THEN Result("apply", binding, capsule, run.files)
                   ELSE IF passed THEN Result("apply", "RESOLVED_VERIFIED", capsule, written)
                   ELSE Result("apply", "VERIFY_FAILED", capsule, run.files)
      /\ run' = [run EXCEPT !.files = result'.after,
                            !.consumed = IF binding # "ok" THEN @
                                         ELSE IF result'.code = "RESOLVED_VERIFIED"
                                         THEN capsule.number ELSE None]
      /\ UNCHANGED request

Apply ==
  \E n \in DOMAIN run.capsules :
    LET capsule == run.capsules[n]
    IN  ApplyAs(capsule, Binding(capsule), Write(run.files, capsule.plan.file, capsule.plan.next))

Next == Preview \/ Move \/ Apply

\* What the proofs assume of the requests.
SoundValue(value) ==
  value.type = "table" =>
    /\ value.entries \in Seq(Range(value.entries))
    /\ \A entry \in Range(value.entries) : entry.name \in STRING /\ entry.value.type # "table"

SoundLine(line) ==
  /\ line.kind \in {"header", "assign", "bad"} /\ line.bare \in BOOLEAN
  /\ line.path \in Seq(STRING) \ {<< >>} /\ SoundValue(line.value)

SoundDocument(lines) ==
  lines \in Seq(Range(lines)) /\ \A line \in Range(lines) : SoundLine(line)

SoundFiles(files) ==
  /\ files = [primary |-> files.primary, override |-> files.override, managed |-> files.managed]
  /\ files.managed \in BOOLEAN
  /\ \A file \in {"primary", "override"} : files[file] = None \/ SoundDocument(files[file])
  /\ Conflicts(files) \subseteq Range(KeyOrder)

SoundRepairs ==
  /\ KeyOrder \in Seq(Range(KeyOrder))
  /\ \A r \in Requests : \A files \in {r.files} \cup r.later : SoundFiles(files)

-----------------------------------------------------------------------------
Applied   == result # None /\ result.op = "apply"
Resolved  == Applied /\ result.code = "RESOLVED_VERIFIED"

Scalars(lines) ==
  IF lines = None THEN << >>
  ELSE LET Set(values) == [p \in {q \in DOMAIN values : values[q].type # "table"} |-> values[p]]
       IN  Set(Parse(lines).value)

TakesOut(before, after, key, planned) ==
  LET mine == {p \in DOMAIN before : planned /\ (IsPrefix(key, p) \/ IsSuffix(key, p))}
  IN  /\ DOMAIN after \subseteq DOMAIN before
      /\ \A p \in (DOMAIN before) \ mine : p \in DOMAIN after /\ after[p] = before[p]
      /\ planned => key \notin DOMAIN after

(***************************************************************************)
(* A repair that is said to have worked took out the key it named, or made *)
(* it the empty table, and all that went with it stood below the key or    *)
(* ends in its very name.  That something else of the name goes is more    *)
(* than what is said of the edit (`remove a top-level or section key line  *)
(* for a dotted key'): to take out `model' it takes the line `model = ...' *)
(* of [features] with it, and reports the repair as verified.              *)
(***************************************************************************)
RepairByName ==
  Resolved =>
    \A file \in {"primary", "override"} :
      TakesOut(Scalars(result.before[file]), Scalars(result.after[file]),
               result.capsule.plan.key, file = result.capsule.plan.file)

(***************************************************************************)
(* Where no other key of the file ends in its name, the repair is exact:   *)
(* the key goes, with at most what stood below it, every other value reads *)
(* as before, and the other file is as it was.                             *)
(***************************************************************************)
RepairIsExact ==
  Resolved =>
    LET key    == result.capsule.plan.key
        Was(f) == Scalars(result.before[f])
        Is(f)  == Scalars(result.after[f])
    IN  \A file \in {"primary", "override"} :
          IF file # result.capsule.plan.file THEN Is(file) = Was(file)
          ELSE (\A p \in DOMAIN Was(file) : IsSuffix(key, p) => p = key) =>
                 /\ DOMAIN Is(file) \subseteq (DOMAIN Was(file)) \ {key}
                 /\ \A p \in DOMAIN Was(file) :
                      ~IsPrefix(key, p) => p \in DOMAIN Is(file) /\ Is(file)[p] = Was(file)[p]

(***************************************************************************)
(* What is said to be repaired starts: both files read, hold no obsolete   *)
(* key, nothing of a wrong type, and do not disagree; any other outcome    *)
(* leaves both as they were, and a managed target is never written.        *)
(***************************************************************************)
WellTyped(values) ==
  \A p \in DOMAIN values :
    \/ Len(p) = 1 /\ p[1] \in {"model", "model_provider"} /\ values[p].type = "string"
    \/ p = << "notify" >> /\ values[p].type = "boolean"
    \/ Len(p) > 1 /\ p[1] = "features" /\ values[p].type = "boolean"

Agree(a, b) == \A p \in (DOMAIN a) \cap DOMAIN b : a[p] = b[p]

Starts(files) ==
  /\ \A file \in {"primary", "override"} :
       files[file] # None => Parse(files[file]).ok /\ WellTyped(Scalars(files[file]))
  /\ Agree(Scalars(files.primary), Scalars(files.override))

ResolvedStarts ==
  /\ Resolved => Starts(result.after) /\ ~result.before.managed
  /\ (result # None /\ ~Resolved) => result.after = result.before

(***************************************************************************)
(* A capsule is applied to what it was previewed on and nothing else: the  *)
(* fault it names is still the one the files have.  What nothing overtook  *)
(* is not refused, but for a wrong type in the override, which is          *)
(* previewed as a repair of the primary.                                   *)
(***************************************************************************)
CapsuleIsBound ==
  /\ (Applied /\ result.code \in {"RESOLVED_VERIFIED", "VERIFY_FAILED"}) =>
       /\ result.before[result.capsule.plan.file] = result.capsule.original
       /\ Probe(result.before).fault # NoFault
       /\ result.capsule.plan.key \in Probe(result.before).fault.keys
  /\ (/\ Applied /\ ~run.moved
      /\ \A n \in DOMAIN run.capsules : run.capsules[n].number <= result.capsule.number
      /\ result.before = [result.before EXCEPT ![result.capsule.reported.file] = result.capsule.original]
      /\ result.code \in {"AUTH_INVALID", "CANDIDATE_NOT_FOUND"}) =>
       result.capsule.reported.fault.class = "type" /\ result.capsule.reported.file = "override"
=============================================================================
