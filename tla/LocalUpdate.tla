----------------------------- MODULE LocalUpdate -----------------------------
(***************************************************************************)
(* compare-local-update (src/instances/local-update): the installed app is *)
(* compared with the update that waits for it.  Discovery goes through two *)
(* levels of directories under a cap on each, the files named are hashed   *)
(* under a budget, the headers of the two archives are walked under caps.  *)
(* The updater is another process: it may install or drop the update       *)
(* between the discovery and the reads.                                    *)
(***************************************************************************)
EXTENDS Integers, FiniteSets, Sequences, SequencesExt

CONSTANTS
  None,
  Requests,                                   \* the machine, or an archive's first bytes
  MaxSessions, MaxDownloads, MaxCandidates,   \* MAX_STAGED_*
  MaxFile, MaxScan,                           \* bytes of a file, of all files read
  MaxNodes, MaxDepth, MaxListed, MaxNative,   \* MAX_ASAR_*, MAX_COMPONENT_ARRAY, ...
  MaxPickle, MaxJson,                         \* MAX_ASAR_HEADER_*_BYTES
  NodeNames                                   \* names of native modules, sorted

VARIABLES
  request,
  run,      \* [found, after]: what was discovered, what the updater did then
  result

vars == << request, run, result >>

Artifacts == << "info_plist", "app_asar", "codex_binary", "code_resources" >>

StablePaths == {"early-bootstrap.js", "package.json", "overlay.html", "index.html"}

-----------------------------------------------------------------------------
(***************************************************************************)
(* Versions are their numbers; a shorter one goes on with zeros.           *)
(***************************************************************************)
Part(v, i) == IF i \in DOMAIN v THEN v[i] ELSE 0

CompareVersions(a, b) ==
  LET apart == SelectInSeq([i \in 1..(Len(a) + Len(b)) |-> Part(a, i) - Part(b, i)],
                           LAMBDA d : d # 0)
  IN  IF apart = 0 THEN 0 ELSE IF Part(a, apart) < Part(b, apart) THEN -1 ELSE 1

VersionRelation(installed, staged) ==
  IF None \in {installed, staged} THEN "unknown"
  ELSE IF installed = staged THEN "same"
  ELSE CASE CompareVersions(installed, staged) = 0 -> "incomparable"
         [] CompareVersions(installed, staged) < 0 -> "newer"
         [] OTHER -> "older"

-----------------------------------------------------------------------------
(***************************************************************************)
(* discovery.ts                                                            *)
(***************************************************************************)
\* validateAppBundle; key is the one an update must bear, or None.
Valid(app, key) ==
  /\ app.kind = "dir"
  /\ \A i \in DOMAIN Artifacts : app.files[Artifacts[i]].kind = "file"
  /\ app.bundle = "com.openai.codex"
  /\ app.version # None
  /\ key # None => app.key = key

FirstValid(apps) ==
  LET i == SelectInSeq(apps, LAMBDA a : Valid(a, None))
  IN  IF i = 0 THEN None ELSE apps[i]

\* With an installed app its key is the one to bear, else some key is.
Bears(app, installed) ==
  IF installed = None THEN Valid(app, None) /\ app.key # None
  ELSE installed.key # None /\ Valid(app, installed.key)

\* tryAcceptStagedApp, where there is a directory by the app's name.
Accept(s, app, installed) ==
  IF app = None \/ app.kind # "dir" THEN s
  ELSE IF Len(s.candidates) >= MaxCandidates THEN [s EXCEPT !.candidates_capped = TRUE]
  ELSE IF ~Bears(app, installed) THEN s
  ELSE [s EXCEPT !.candidates = Append(@, app),
                 !.candidates_capped = Len(s.candidates) + 1 >= MaxCandidates]

\* Mutant: the download directories of a session end at the cap, untold.
VisitDownload_Untold(s, d, installed) ==
  IF s.downloads >= MaxDownloads \/ d.kind \notin {"dir", "link"} THEN s
  ELSE Accept([s EXCEPT !.downloads = @ + 1], IF d.kind = "dir" THEN d.app ELSE None, installed)

\* A link counts as inspected, a file or a name that is refused does not.
VisitDownload(s, d, installed) ==
  IF s.downloads_capped THEN s
  ELSE IF s.downloads >= MaxDownloads THEN [s EXCEPT !.downloads_capped = TRUE]
  ELSE IF d.kind \notin {"dir", "link"} THEN s
  ELSE Accept([s EXCEPT !.downloads = @ + 1], IF d.kind = "dir" THEN d.app ELSE None, installed)

\* The app may also be in the session itself, whatever was capped below.
VisitSession(s, e, installed) ==
  IF s.sessions_capped THEN s
  ELSE IF s.sessions >= MaxSessions THEN [s EXCEPT !.sessions_capped = TRUE]
  ELSE IF e.kind \notin {"dir", "link"} THEN s
  ELSE LET seen == [s EXCEPT !.sessions = @ + 1]
       IN  IF e.kind = "link" THEN seen
           ELSE FoldLeft(LAMBDA t, d : VisitDownload(t, d, installed),
                         Accept(seen, e.app, installed), e.downloads)

\* discoverStagedAndInstalled
Discovered(machine) ==
  LET installed == FirstValid(machine.installed)
      nothing   == [sessions |-> 0, sessions_capped |-> FALSE, downloads |-> 0, downloads_capped |-> FALSE,
                    candidates |-> << >>, candidates_capped |-> FALSE]
      staged    == FoldLeft(LAMBDA s, e : VisitSession(s, e, installed), nothing, machine.sessions)
  IN  IF ~machine.supported THEN [supported |-> FALSE, installed |-> None, staged |-> nothing]
      ELSE [supported |-> TRUE, installed |-> installed, staged |-> staged]

-----------------------------------------------------------------------------
(***************************************************************************)
(* measureNamedFile under the budget: files are hashed until the time or   *)
(* the bytes are used up; an app that has gone is out of its root.         *)
(***************************************************************************)
Status(app, file, budget) ==
  IF budget.reads = 0 THEN "time_budget_exceeded"
  ELSE IF app.kind = "gone" THEN "out_of_root"
  ELSE IF file.kind = "missing" THEN "missing"
  ELSE IF file.kind = "link" THEN "symlink_refused"
  ELSE IF file.size > MaxFile \/ file.size > budget.remaining THEN "oversize"
  ELSE "read_ok"

MeasureSide(m, app, key) ==
  LET file   == app.files[key]
      status == Status(app, file, m.budget)
  IN  IF status # "read_ok"
      THEN [m EXCEPT !.read = Append(@, [status |-> status, sha256 |-> None, size |-> None])]
      ELSE [budget |-> [reads |-> m.budget.reads - 1, remaining |-> m.budget.remaining - file.size],
            read   |-> Append(m.read, [status |-> status, sha256 |-> file.bytes, size |-> file.size])]

\* Mutant: what could be read on one side only was added or removed.
ClassifyNamedChange_Sided(inst, stg) ==
  IF inst.status = "read_ok" /\ stg.status # "read_ok" THEN "removed"
  ELSE IF stg.status = "read_ok" /\ inst.status # "read_ok" THEN "added"
  ELSE IF inst.status # "read_ok" THEN "gap"
  ELSE IF inst.sha256 # stg.sha256 THEN "hash_changed" ELSE "unchanged"

\* classifyNamedChange, of two entries.
ClassifyNamedChange(inst, stg) ==
  IF inst.status # "read_ok" \/ stg.status # "read_ok" THEN "gap"
  ELSE IF inst.sha256 # stg.sha256 THEN "hash_changed"
  ELSE IF inst.size = stg.size THEN "unchanged" ELSE "size_changed"

\* The rows, each from the two sides, one after the other.
NamedArtifacts(installed, staged, reads) ==
  LET measured == FoldLeft(LAMBDA m, key : MeasureSide(MeasureSide(m, installed, key), staged, key),
                           [budget |-> [reads |-> reads, remaining |-> MaxScan], read |-> << >>],
                           Artifacts)
  IN  [i \in DOMAIN Artifacts |->
         LET inst == measured.read[2 * i - 1]
             stg  == measured.read[2 * i]
         IN  [key |-> Artifacts[i], change |-> ClassifyNamedChange(inst, stg),
              installed |-> inst, staged |-> stg]]

-----------------------------------------------------------------------------
(***************************************************************************)
(* asar-header.ts: the first bytes of an archive, as the numbers in them,  *)
(* and the tree, as its nodes in the order of the walk.                    *)
(***************************************************************************)
Align4(n) == ((n + 3) \div 4) * 4

\* Mutant: the string may take the whole of what the payload says it has.
ParseHeader_NoPadding(h) ==
  IF h.file < 16 \/ 8 + h.pickle > h.file THEN "truncated"
  ELSE IF h.outer # 4 \/ h.pickle <= 8 \/ h.json < 2 \/ h.inner < 4 + h.json THEN "malformed"
  ELSE IF h.pickle > MaxPickle \/ h.json > MaxJson THEN "oversize"
  ELSE IF h.text # "tree" THEN "malformed" ELSE "ok"

\* parseAsarHeaderFromFd
ParseHeader(h) ==
  IF h.file < 16 THEN "truncated"
  ELSE IF h.outer # 4 \/ h.pickle <= 8 THEN "malformed"
  ELSE IF h.pickle > MaxPickle THEN "oversize"
  ELSE IF 8 + h.pickle > h.file THEN "truncated"
  ELSE IF h.inner + 4 > h.pickle \/ h.json < 2 THEN "malformed"
  ELSE IF h.json > MaxJson THEN "oversize"
  ELSE IF Align4(8 + h.json) > h.pickle \/ h.inner < 4 + Align4(h.json) THEN "malformed"
  ELSE IF h.text # "tree" THEN "malformed" ELSE "ok"

\* What buildSyntheticAsarBuffer, and Electron, write for a text of n bytes.
Written(n) ==
  [file |-> 16 + Align4(n), outer |-> 4, pickle |-> 8 + Align4(n), inner |-> 4 + Align4(n),
   json |-> n, text |-> "tree"]

\* Mutant: what is too deep is left out, untold.
VisitNode_DeepUntold(w, n) ==
  IF w.nodes_capped \/ n.depth > w.under THEN w
  ELSE IF w.nodes >= MaxNodes THEN [w EXCEPT !.nodes_capped = TRUE]
  ELSE [w EXCEPT !.nodes = @ + 1,
          !.under = IF n.kind = "refused" \/ n.depth >= MaxDepth THEN n.depth ELSE MaxDepth + 1,
          !.files = IF n.kind = "file" THEN @ \cup {n} ELSE @]

\* walkFilesTree; "under" is the depth below which the walk passes over.
VisitNode(w, n) ==
  LET deep == n.kind = "dir" /\ n.depth >= MaxDepth
  IN  IF w.nodes_capped \/ n.depth > w.under THEN w
      ELSE IF w.nodes >= MaxNodes THEN [w EXCEPT !.nodes_capped = TRUE]
      ELSE [w EXCEPT !.nodes = @ + 1, !.depth_capped = @ \/ deep,
              !.under = IF n.kind = "refused" \/ deep THEN n.depth ELSE MaxDepth + 1,
              !.files = IF n.kind = "file" THEN @ \cup {n} ELSE @]

\* parseAsarHeaderFile
ParseAsar(app) ==
  LET status == IF app.kind = "gone" \/ app.files.app_asar.kind = "missing" THEN "io_error"
                ELSE IF app.files.app_asar.kind = "link" THEN "symlink_refused"
                ELSE ParseHeader(app.header)
      start  == [files |-> {}, nodes |-> 0, nodes_capped |-> FALSE, depth_capped |-> FALSE,
                 under |-> MaxDepth + 1]
  IN  [status |-> status, walk |-> IF status = "ok" THEN FoldLeft(VisitNode, start, app.tree) ELSE start]

-----------------------------------------------------------------------------
(***************************************************************************)
(* component-diff.ts and native-module-diff.ts                             *)
(***************************************************************************)
\* Mutant: the size is enough.
ClassifyStablePath_BySize(a, b) ==
  IF a = {} THEN "added" ELSE IF b = {} THEN "removed"
  ELSE LET x == CHOOSE n \in a : TRUE  y == CHOOSE n \in b : TRUE
       IN  IF x.size # y.size THEN "size_changed" ELSE "unchanged"

\* classifyStablePathChange; hash is None where the archive's is not trusted.
ClassifyStablePath(a, b) ==
  IF a = {} THEN "added" ELSE IF b = {} THEN "removed"
  ELSE LET x == CHOOSE n \in a : TRUE
           y == CHOOSE n \in b : TRUE
       IN  IF None \notin {x.hash, y.hash} /\ x.hash # y.hash THEN "hash_changed"
           ELSE IF x.size # y.size THEN "size_changed"
           ELSE IF None \in {x.hash, y.hash} THEN "present_both" ELSE "unchanged"

Modules(files) == {f.base : f \in {g \in files : \E i \in DOMAIN NodeNames : NodeNames[i] = g.base}}

\* One name after the other, until the list is full and a name is left.
NodeBasenames(inst, stg) ==
  FoldLeft(LAMBDA r, b :
             IF r.truncated \/ b \notin inst \cup stg THEN r
             ELSE IF Len(r.changes) >= MaxListed THEN [r EXCEPT !.truncated = TRUE]
             ELSE IF b \in inst \cap stg THEN r
             ELSE [r EXCEPT !.changes = Append(@, << b, IF b \in inst THEN "removed" ELSE "added" >>)],
           [changes |-> << >>, truncated |-> FALSE], NodeNames)

NothingCompared(status) ==
  [status |-> status, stable |-> {}, modules |-> [changes |-> << >>, truncated |-> FALSE]]

\* compareAsarComponents
CompareAsar(inst, stg) ==
  LET At(files, path) == {f \in files : f.path = path}
      I == inst.walk.files
      S == stg.walk.files
      capped == \E w \in {inst.walk, stg.walk} : w.nodes_capped \/ w.depth_capped
  IN  IF inst.status # "ok" /\ stg.status # "ok" THEN NothingCompared("unavailable")
      ELSE IF inst.status # "ok" \/ stg.status # "ok" THEN NothingCompared("partial")
      ELSE [status  |-> IF capped THEN "partial" ELSE "compared",
            stable  |-> {<< p, ClassifyStablePath(At(I, p), At(S, p)) >> :
                           p \in {q \in StablePaths : At(I \cup S, q) # {}}},
            modules |-> NodeBasenames(Modules(I), Modules(S))]

\* listNativeModuleBasenames: the cap counts every name, modules or not.
ListNative(app) ==
  LET dir    == app.native
      taken  == SubSeq(dir.names, 1, IF Len(dir.names) > MaxNative THEN MaxNative ELSE Len(dir.names))
      status == IF app.kind = "gone" \/ dir.kind \in {"link", "file", "unreadable"} THEN "refused"
                ELSE IF dir.kind = "absent" THEN "absent"
                ELSE IF Len(dir.names) > MaxNative THEN "capped" ELSE "ok"
  IN  [status |-> status,
       names  |-> IF status \in {"refused", "absent"} THEN {}
                  ELSE {taken[i].name : i \in {j \in DOMAIN taken : taken[j].kind = "module"}}]

\* Mutant: a side that could not be listed has no modules.
CompareNative_RefusedIsAbsent(inst, stg) ==
  [status  |-> IF "capped" \in {inst.status, stg.status} THEN "partial" ELSE "compared",
   added   |-> stg.names \ inst.names,
   removed |-> inst.names \ stg.names]

\* compareNativeModuleDirs: what is told of a side that is refused is partial.
CompareNative(inst, stg) ==
  [status  |-> IF {inst.status, stg.status} \cap {"refused", "capped"} # {} THEN "partial" ELSE "compared",
   added   |-> stg.names \ inst.names,
   removed |-> inst.names \ stg.names]

-----------------------------------------------------------------------------
(***************************************************************************)
(* compare.ts and official.ts                                              *)
(***************************************************************************)
\* pickStagedCandidate, and what the caller makes of its hint.
Picked(found) ==
  LET c == found.staged.candidates
  IN  IF Len(c) = 1 THEN c[1] ELSE None

PickStatus(found) ==
  LET c   == found.staged.candidates
      rel == VersionRelation(found.installed.version, c[1].version)
  IN  IF Len(c) > 1 THEN "multiple_candidates"
      ELSE IF found.installed = None THEN "no_installed_app"
      ELSE IF c = << >> THEN "no_staged_candidate"
      ELSE CASE rel = "same"  -> "same_version"
             [] rel = "older" -> "staged_older"
             [] rel = "newer" -> "comparable_newer"
             [] OTHER         -> "version_incomparable"

\* versionRangeBinds: a range open on both sides binds nothing.
RangeBinds(range, version) ==
  /\ range.from # None \/ range.to # None
  /\ range.from # None => CompareVersions(version, range.from) >= 0
  /\ range.to # None => CompareVersions(version, range.to) <= 0

\* buildOfficialEvidenceSection
Official(snapshot, version) ==
  LET bound == {item \in snapshot.items : RangeBinds(item, version)}
  IN  IF version = None THEN "not_applicable"
      ELSE IF ~snapshot.loads THEN "unavailable"
      ELSE IF bound = {} THEN "version_unbound" ELSE "version_bound"

Comparable == {"comparable_newer", "same_version", "staged_older", "version_incomparable"}

\* Mutant: rows with gaps are enough where one of them is whole.
Elevated_AnyMeasured(status, rows, asar) ==
  IF status \in Comparable /\ \A i \in DOMAIN rows : rows[i].change = "gap" THEN "partial" ELSE status

\* A version status stands only on rows without a gap and whole archives.
Elevated(status, rows, asar) ==
  IF status \in Comparable /\ (asar.status # "compared" \/ \E i \in DOMAIN rows : rows[i].change = "gap")
  THEN "partial" ELSE status

\* What is in an app's directory when it is read.
Gone == [kind |-> "gone", files |-> [a \in {Artifacts[i] : i \in DOMAIN Artifacts} |-> [kind |-> "missing"]]]
Now(side, found, after) ==
  CASE after = "installed_update" -> IF side = "installed" THEN Picked(found) ELSE Gone
    [] after = "dropped_update"   -> IF side = "installed" THEN found.installed ELSE Gone
    [] OTHER                      -> IF side = "installed" THEN found.installed ELSE Picked(found)

\* compareLocalUpdate, after its discovery.
Compared(found, after, machine) ==
  LET selected == Picked(found)
      both == selected # None /\ found.installed # None
      inst == Now("installed", found, after)
      stg  == Now("staged", found, after)
      rows == IF both THEN NamedArtifacts(inst, stg, machine.reads) ELSE << >>
      asar == IF both THEN CompareAsar(ParseAsar(inst), ParseAsar(stg)) ELSE NothingCompared("skipped")
      nat  == IF both THEN CompareNative(ListNative(inst), ListNative(stg))
              ELSE [status |-> "skipped", added |-> {}, removed |-> {}]
  IN  IF ~found.supported
      THEN [status |-> "unsupported_platform", selected |-> None, rows |-> << >>,
            asar |-> NothingCompared("skipped"), native |-> [status |-> "skipped", added |-> {}, removed |-> {}],
            capped |-> FALSE, official |-> Official(machine.snapshot, None)]
      ELSE [status |-> Elevated(PickStatus(found), rows, asar), selected |-> selected, rows |-> rows,
            asar |-> asar, native |-> nat,
            capped |-> found.staged.sessions_capped \/ found.staged.downloads_capped,
            official |-> Official(machine.snapshot, IF selected = None THEN None ELSE selected.version)]

-----------------------------------------------------------------------------
Init ==
  /\ request \in Requests
  /\ run = [found |-> None, after |-> "as_before"]
  /\ result = None

Discover ==
  /\ request.op = "compare" /\ run.found = None
  /\ run' = [run EXCEPT !.found = Discovered(request)]
  /\ UNCHANGED << request, result >>

\* The updater, between the discovery and the reads.
Update ==
  /\ run.found # None /\ result = None /\ run.after = "as_before"
  /\ run.found.installed # None /\ Picked(run.found) # None
  /\ \E after \in {"installed_update", "dropped_update"} : run' = [run EXCEPT !.after = after]
  /\ UNCHANGED << request, result >>

Compare ==
  /\ run.found # None /\ result = None
  /\ result' = Compared(run.found, run.after, request)
  /\ UNCHANGED << request, run >>

\* The header of an archive on its own, as the tests read it.
ReadHeader ==
  /\ request.op = "header" /\ result = None
  /\ result' = [status |-> ParseHeader(request.header)]
  /\ UNCHANGED << request, run >>

Next == Discover \/ Update \/ Compare \/ ReadHeader

-----------------------------------------------------------------------------
Told == request.op = "compare" /\ result # None

\* Where an app that bears the right key waits, within the two levels.
Waiting ==
  LET bears(app) == app # None /\ Bears(app, run.found.installed)
      open == {i \in DOMAIN request.sessions : request.sessions[i].kind = "dir"}
  IN  {<< i, 0 >> : i \in {j \in open : bears(request.sessions[j].app)}}
      \cup UNION {{<< i, k >> : k \in {d \in DOMAIN request.sessions[i].downloads :
                                         /\ request.sessions[i].downloads[d].kind = "dir"
                                         /\ bears(request.sessions[i].downloads[d].app)}} : i \in open}

(***************************************************************************)
(* "Do not hide ambiguity": an update is compared only if it is the only   *)
(* one that waits, or the answer says where the search ended.              *)
(***************************************************************************)
AmbiguityIsTold ==
  (Told /\ run.found.supported) =>
    /\ result.selected # None => Cardinality(Waiting) = 1 \/ result.capped
    /\ ~result.capped => (result.selected # None <=> Cardinality(Waiting) = 1)

(***************************************************************************)
(* "Explicit gaps": an answer by version alone stands on all four files of *)
(* both apps, read to the end, and on two whole archives; a change told of *)
(* a file was read on both sides, and the updater's work in between shows. *)
(***************************************************************************)
GapsAreTold ==
  Told =>
    /\ result.status \in Comparable =>
         /\ Len(result.rows) = Len(Artifacts) /\ result.asar.status = "compared"
         /\ run.after = "as_before"
    /\ \A i \in DOMAIN result.rows :
         result.rows[i].change # "gap" =>
           result.rows[i].installed.status = "read_ok" /\ result.rows[i].staged.status = "read_ok"

\* The files of an archive's tree that no refused name hides.
Files(tree) ==
  {tree[i] : i \in {j \in DOMAIN tree :
     /\ tree[j].kind = "file"
     /\ \A k \in 1..(j - 1) :
          tree[k].kind = "refused" =>
            \E m \in (k + 1)..j : tree[m].depth <= tree[k].depth}}

(***************************************************************************)
(* "Any truncation must never claim full compared": what an archive said   *)
(* to be compared gained or lost is so in the whole of both trees, and all *)
(* of it is told unless the list is said to be cut; a file is unchanged    *)
(* only by the hash both archives give for it.                             *)
(***************************************************************************)
ComponentsHold ==
  (Told /\ result.asar.status \in {"compared", "partial"}) =>
    LET I == Files(Now("installed", run.found, run.after).tree)
        S == Files(Now("staged", run.found, run.after).tree)
        told == {result.asar.modules.changes[i] : i \in DOMAIN result.asar.modules.changes}
        real == {<< b, "removed" >> : b \in Modules(I) \ Modules(S)}
                \cup {<< b, "added" >> : b \in Modules(S) \ Modules(I)}
    IN  /\ result.asar.status = "compared" =>
             /\ told \subseteq real
             /\ ~result.asar.modules.truncated => told = real
             /\ {c[1] : c \in result.asar.stable} = {f.path : f \in I \cup S} \cap StablePaths
        /\ \A c \in result.asar.stable :
             c[2] = "unchanged" =>
               \E f \in I, g \in S : f.path = c[1] /\ g.path = c[1] /\ f.hash = g.hash /\ f.hash # None

(***************************************************************************)
(* The native modules told as gained or lost in a full comparison are so,  *)
(* of directories that could be listed on both sides.                      *)
(***************************************************************************)
NativeModulesHold ==
  (Told /\ result.native.status = "compared") =>
    LET Dir(side) == Now(side, run.found, run.after).native
        In(dir)   == {dir.names[i].name : i \in {j \in DOMAIN dir.names : dir.names[j].kind = "module"}}
    IN  /\ run.after = "as_before"
        /\ {Dir("installed").kind, Dir("staged").kind} \subseteq {"dir", "absent"}
        /\ result.native.added = In(Dir("staged")) \ In(Dir("installed"))
        /\ result.native.removed = In(Dir("installed")) \ In(Dir("staged"))

(***************************************************************************)
(* A header is read only if the text lies in the file with its padding,    *)
(* and one that is written as Electron does is read.                       *)
(***************************************************************************)
HeadersFit ==
  (request.op = "header" /\ result # None) =>
    /\ result.status = "ok" =>
         /\ 8 + Align4(8 + request.header.json) <= request.header.file
         /\ request.header.json \in 2..MaxJson /\ request.header.pickle <= MaxPickle
    /\ (\E n \in 2..MaxJson : request.header = Written(n) /\ request.header.pickle <= MaxPickle)
         => result.status = "ok"
=============================================================================
