----------------------------- MODULE InstanceScan -----------------------------
(***************************************************************************)
(* The multi-instance scan (src/instances: scan.ts, state.ts, compare.ts,  *)
(* artifacts.ts, artifact-diff.ts) and the SessionStart hook that rests on *)
(* it (src/hooks): identify the installed Codex instances, load the stored *)
(* baseline, hash the named artifacts one after the other, compare, save   *)
(* the new baseline and only then deliver the notice about it.             *)
(*                                                                         *)
(* The installation changes at any moment, measurements run out of time,   *)
(* saves fail, the stored file is damaged and the hook is killed.          *)
(* Digests are what they are digests of.  One scan runs at a time.         *)
(***************************************************************************)
EXTENDS Naturals, FiniteSets

CONSTANTS
  Instances,    \* places an instance may be installed at
  Candidate,    \* what the enumeration says of each
  Contents,     \* contents of an artifact
  MaxVersion,   \* bound: versions are 1..MaxVersion
  MaxChanges,   \* bound: changes of the installation
  MaxCrashes,   \* bound: scans that are killed
  NoState, Unreadable

Versions == 1..MaxVersion
Gaps     == {"missing", "time_budget_exceeded"}
Orders   == {o \in [Instances -> 1..Cardinality(Instances)] :
               \A i, j \in Instances : o[i] = o[j] => i = j}

VARIABLES
  installed,  \* the versions of the instances that are there
  order,      \* their places in PATH
  content,    \* what each artifact holds
  stored,     \* version-fingerprint.json
  pc, job,    \* the running scan and its locals
  owed,       \* history: the stored baseline has not been told of yet
  crashes, changes

vars == << installed, order, content, stored, pc, job, owed, crashes, changes >>
world == << installed, order, content, changes >>

(***************************************************************************)
(* namedArtifactTargetsForCandidate: exact names, no traversal.            *)
(***************************************************************************)
Names(i) ==
  LET c == Candidate[i]
  IN  {"executable"} \cup c.metadata
      \cup (IF c.platform = "macos" /\ c.source = "desktop_bundled"
            THEN {"info_plist", "app_asar", "resources_codex", "code_resources"} ELSE {})
      \cup (IF c.platform = "windows" /\ c.trusted THEN {"app_asar"} ELSE {})

Targets(S) == UNION {{i} \X Names(i) : i \in S}

\* toIdentity, for the instances in S.
Identities == [i \in DOMAIN installed |-> [version |-> installed[i], precedence |-> order[i]]]

\* quiet and prior are history: the installation did not change while the
\* scan ran, and what was stored when it compared.
NoJob == [mode |-> "manual_scan", ident |-> << >>, entries |-> << >>,
          said |-> {}, quiet |-> TRUE, prior |-> NoState]

-----------------------------------------------------------------------------
\* classifyTransitions

Rank == << "first_baseline", "downgrade", "upgrade", "path_precedence_drift",
           "newly_discovered", "removed", "unchanged" >>

Transitions(prev, cur) ==
  LET both == DOMAIN prev \cap DOMAIN cur
      Has(class, P) == IF P THEN {class} ELSE {}
  IN  Has("newly_discovered", ~(DOMAIN cur \subseteq DOMAIN prev))
      \cup Has("removed", ~(DOMAIN prev \subseteq DOMAIN cur))
      \cup Has("upgrade", \E i \in both : prev[i].version < cur[i].version)
      \cup Has("downgrade", \E i \in both : prev[i].version > cur[i].version)
      \cup Has("path_precedence_drift",
               \E i \in both : prev[i].precedence # cur[i].precedence)

\* pickPrimary
Primary(S) ==
  IF S = {} THEN "unchanged"
  ELSE Rank[CHOOSE n \in DOMAIN Rank :
              Rank[n] \in S /\ \A m \in 1..(n - 1) : Rank[m] \notin S]

-----------------------------------------------------------------------------
\* classifyLocalArtifactDiff

ReadOk(e) == {k \in DOMAIN e : e[k] \notin Gaps}
TimedOut(e) == \E k \in DOMAIN e : e[k] = "time_budget_exceeded"

HashChanged(old, new) == {k \in ReadOk(old) \cap ReadOk(new) : old[k] # new[k]}
GapChanged(old, new) ==
  {k \in DOMAIN old \cap DOMAIN new : old[k] # new[k]} \ HashChanged(old, new)
Members(old, new) == (DOMAIN old \ DOMAIN new) \cup (DOMAIN new \ DOMAIN old)

DiffStatus(old, new) ==
  IF TimedOut(new)
  THEN IF ReadOk(new) # {} THEN "partial" ELSE "unavailable"
  ELSE IF old = new THEN "unchanged"
  ELSE IF HashChanged(old, new) \cup Members(old, new) # {}
  THEN IF /\ ReadOk(new) \notin {{}, DOMAIN new}
          /\ GapChanged(old, new) # {}
       THEN "partial" ELSE "content_changed"
  ELSE "partial"

\* Nothing was stored about artifacts: a first scan, or a file of schema 1.
FirstStatus(new) == IF ReadOk(new) = {} THEN "unavailable" ELSE "first_baseline"

-----------------------------------------------------------------------------
\* scanInstances

First == stored = NoState
Prior == ~First /\ stored.schema = 2

ArtifactStatus ==
  IF Prior THEN DiffStatus(stored.entries, job.entries) ELSE FirstStatus(job.entries)

IdentityChanged == ~First => stored.ident # job.ident

\* Mutant: equal digests are equality, also of two incomplete measurements.
ArtifactChanged_Digests == Prior => stored.entries # job.entries

ArtifactChanged ==
  Prior => (stored.entries # job.entries \/ TimedOut(job.entries))

Changed == {IdentityChanged, ArtifactChanged} # {FALSE}

(***************************************************************************)
(* formatSessionStartContext: what the headline claims.  previous_-        *)
(* fingerprint is null exactly on a first scan, and a transition other     *)
(* than "unchanged" is a version change unless it is the first baseline.   *)
(***************************************************************************)
DiffContent ==
  Prior /\ HashChanged(stored.entries, job.entries)
             \cup Members(stored.entries, job.entries) # {}

\* Mutant: a first scan is a version change.
VersionChanged_Established == IdentityChanged

VersionChanged ==
  /\ ~First
  /\ \/ stored.ident # job.ident
     \/ Primary(Transitions(stored.ident, job.ident)) # "unchanged"

Headline ==
  LET st    == ArtifactStatus
      Part(name, P) == IF P THEN {name} ELSE {}
  IN  Part("version_established", First)
      \cup Part("version_changed", VersionChanged)
      \cup Part("artifacts_established", st = "first_baseline")
      \cup Part("unavailable", st = "unavailable")
      \cup Part("incomplete", st = "partial")
      \cup Part("artifacts_changed",
                \/ st = "content_changed"
                \/ st = "partial" /\ DiffContent
                \/ st = "unchanged" /\ ~First /\ ~VersionChanged)

-----------------------------------------------------------------------------
Init ==
  /\ installed \in UNION {[S -> Versions] : S \in SUBSET Instances}
  /\ order \in Orders
  /\ content \in [Targets(Instances) -> Contents \cup {"missing"}]
  /\ stored = NoState
  /\ pc = "idle" /\ job = NoJob /\ owed = FALSE
  /\ crashes = 0 /\ changes = 0

End == pc' = "idle" /\ job' = NoJob

\* loadState, parseStateJson, parseIdentity, parseArtifactBaseline: a state
\* that is not exactly what saveState wrote is an error, never a first scan.
Readable == stored # Unreadable

(***************************************************************************)
(* runSessionStart of a trusted hook, or a manual scan: buildIdentities,   *)
(* then loadState.  A state that cannot be read ends the scan; the hook    *)
(* then stays silent.                                                      *)
(***************************************************************************)
Start(mode) ==
  /\ pc = "idle" /\ Readable
  /\ pc' = "measure"
  /\ job' = [NoJob EXCEPT !.mode = mode, !.ident = Identities]
  /\ UNCHANGED << world, stored, owed, crashes >>

\* What is read of an artifact: of one whose instance has gone by now, nothing.
ReadNow(k) == IF k[1] \in DOMAIN installed THEN content[k] ELSE "missing"

\* What has been measured, and value for the targets in K.
Filled(entries, K, value) ==
  [k \in DOMAIN entries \cup K |-> IF k \in DOMAIN entries THEN entries[k] ELSE value]

(***************************************************************************)
(* measureNamedFile for the next target (which is next does not matter).   *)
(* Only a session start has a time budget; once it is used up the          *)
(* remaining targets are gaps.                                             *)
(***************************************************************************)
Measure ==
  LET rest == Targets(DOMAIN job.ident) \ DOMAIN job.entries
      next == CHOOSE k \in rest : TRUE
  IN  /\ pc = "measure" /\ rest # {}
      /\ \/ job' = [job EXCEPT !.entries = Filled(@, {next}, ReadNow(next))]
         \/ /\ job.mode = "session_start"
            /\ job' = [job EXCEPT !.entries = Filled(@, rest, "time_budget_exceeded")]
      /\ UNCHANGED << pc, world, stored, owed, crashes >>

Measured == pc = "measure" /\ DOMAIN job.entries = Targets(DOMAIN job.ident)

\* Nothing new: a session start ends without output, a manual scan says so.
Quiet ==
  /\ Measured /\ ~Changed
  /\ End
  /\ UNCHANGED << world, stored, owed, crashes >>

NextState == [schema |-> 2, ident |-> job.ident, entries |-> job.entries]

\* saveState, atomic; when it fails the scan fails and says nothing new.
Save ==
  /\ Measured /\ Changed
  /\ \/ /\ stored' = NextState
        /\ owed' = TRUE
        /\ pc' = "notify"
        /\ job' = [job EXCEPT !.said = Headline, !.prior = stored]
     \/ End /\ UNCHANGED << stored, owed >>
  /\ UNCHANGED << world, crashes >>

\* Mutant: an artifact change alone is not told.
Notify_IdentityOnly ==
  /\ pc = "notify"
  /\ owed' = (owed /\ "version_changed" \notin job.said)
  /\ End
  /\ UNCHANGED << world, stored, crashes >>

\* runPackagedSessionStart writes the context, or the command prints the result.
Notify ==
  /\ pc = "notify"
  /\ owed' = FALSE
  /\ End
  /\ UNCHANGED << world, stored, crashes >>

\* The hook is killed, by the host's own time limit or with its session.
Crash ==
  /\ pc # "idle" /\ crashes < MaxCrashes
  /\ crashes' = crashes + 1
  /\ End
  /\ UNCHANGED << world, stored, owed >>

\* parseStateJson refuses a damaged file, and accepts one of schema 1.
Damage ==
  /\ pc = "idle" /\ stored \notin {NoState, Unreadable}
  /\ \/ stored' = Unreadable
     \/ stored' = [stored EXCEPT !.schema = 1, !.entries = << >>]
  /\ UNCHANGED << world, pc, job, owed, crashes >>

\* A change of the installation, at any moment of a scan.
World ==
  /\ changes < MaxChanges /\ changes' = changes + 1
  /\ \/ /\ installed' \in UNION {[S -> Versions] : S \in SUBSET Instances} \ {installed}
        /\ UNCHANGED << order, content >>
     \/ /\ order' \in Orders \ {order}
        /\ UNCHANGED << installed, content >>
     \/ /\ \E k \in Targets(Instances), c \in Contents \cup {"missing"} :
             c # content[k] /\ content' = [content EXCEPT ![k] = c]
        /\ UNCHANGED << installed, order >>
  /\ job' = [job EXCEPT !.quiet = FALSE]
  /\ UNCHANGED << stored, pc, owed, crashes >>

Next ==
  \/ \E mode \in {"session_start", "manual_scan"} : Start(mode)
  \/ Measure \/ Quiet \/ Save \/ Notify \/ Crash \/ Damage \/ World

Spec == Init /\ [][Next]_vars

-----------------------------------------------------------------------------
(***************************************************************************)
(* A baseline that was saved is told of before the scan ends: unless the   *)
(* hook was killed between the two, which the order of scan.ts permits.    *)
(***************************************************************************)
BaselineTold == crashes = 0 => (owed => pc = "notify")

(***************************************************************************)
(* A scan that ends without a notice over an installation that did not     *)
(* change while it ran leaves a baseline that is exactly what is           *)
(* installed, every artifact of it read: a measurement cut short is never  *)
(* taken for "nothing changed", however often it repeats.                  *)
(***************************************************************************)
AsStored ==
  /\ stored.ident = Identities
  /\ stored.entries = [k \in Targets(DOMAIN installed) |-> content[k]]

NoSilentChange == [][(Quiet /\ job.quiet) => AsStored]_vars

\* The artifacts read both times whose contents differ, or named only once.
Differ(old, new) ==
  \/ DOMAIN old # DOMAIN new
  \/ \E k \in DOMAIN old \cap DOMAIN new :
       old[k] # new[k] /\ {old[k], new[k]} \subseteq Contents

(***************************************************************************)
(* The headline claims a changed version only against an earlier baseline  *)
(* that differs in an instance, a version or the PATH order, a changed     *)
(* artifact only when one differs that was read both times, and says that  *)
(* the measurement is incomplete whenever one was cut short that is        *)
(* compared (the first baseline of artifacts does not say it).             *)
(***************************************************************************)
HeadlineHonest ==
  pc = "notify" =>
    LET compared == job.prior # NoState /\ job.prior.schema = 2
    IN  /\ ("version_changed" \in job.said) <=>
             (job.prior # NoState /\ job.prior.ident # job.ident)
        /\ ("artifacts_changed" \in job.said) =>
             (compared /\ Differ(job.prior.entries, job.entries))
        /\ (compared /\ TimedOut(job.entries)) =>
             job.said \cap {"incomplete", "unavailable"} # {}

(* A saved baseline is told of, and the headline claims what was compared. *)
ScanIsHonest == BaselineTold /\ HeadlineHonest
=============================================================================
