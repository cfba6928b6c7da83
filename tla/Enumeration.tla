----------------------------- MODULE Enumeration -----------------------------
(***************************************************************************)
(* Where Codex is installed (src/instances/system-adapter.ts,              *)
(* windows/adapter.ts, src/platform/linux-adapter.ts, wsl-adapter.ts and   *)
(* discovery.ts), which version each installation says it is               *)
(* (version-evidence.ts), and which of them an observed process belongs to *)
(* (resolve.ts).                                                           *)
(*                                                                         *)
(* A path is a directory and a name.  A world says what each directory is, *)
(* whether it leads to a drive of the Windows host, what it holds, and     *)
(* which of the names in it lead to such a drive.  A hash is the path it   *)
(* is taken over.                                                          *)
(***************************************************************************)
EXTENDS Naturals, Sequences, SequencesExt

CONSTANTS
  Requests,      \* [platform, world, path, desktop, cli, msix, packages, registered,
                 \*  profiles, max]: the registered places of a platform
  Observations,  \* [process, log, launch, version]: what is known of a process
  Parent,        \* the directory a directory stands in, or None
  Bundle,        \* the application a directory belongs to, or None
  None

VARIABLES
  request,       \* the machine
  result         \* what was enumerated, and which instance is affected

vars == << request, result >>

-----------------------------------------------------------------------------
(***************************************************************************)
(* lstat of a path: of its last name only, so what a linked directory      *)
(* leads to is seen through it.                                            *)
(***************************************************************************)
Kind(w, p) == IF p[2] \in DOMAIN w[p[1]].files THEN w[p[1]].files[p[2]].kind ELSE "missing"

IsBinary(w, p) == Kind(w, p) \in {"file", "link"}

Real(w, d) == w[d].kind = "dir"

\* Mutant: what it is called, not where it leads.
HostMount_Shape(w, d) == w[d].host = "shape"

\* isHostMountPath: by its shape, or by where it leads.
HostMount(w, d) == w[d].host # "no"

HostFile(w, p) == HostMount(w, p[1]) \/ p[2] \in w[p[1]].leading

Posix(platform) == platform \in {"linux", "wsl"}

\* assertRealDirectory, trustDir
Trusted(w, d) == IF Real(w, d) THEN {d} ELSE {}

Meta(roots, d, names) == IF roots = {} THEN << >> ELSE [n \in DOMAIN names |-> << d, names[n] >>]

Row(source, surface, path, platform, alias, roots, meta) ==
  [source |-> source, surface |-> surface, path |-> path, platform |-> platform, alias |-> alias,
   precedence |-> None, roots |-> roots, meta |-> meta,
   domain |-> CASE platform = "macos" -> "macos_host" [] platform = "linux" -> "native_linux"
                [] platform = "wsl" -> "wsl_distro" [] OTHER -> "windows_host"]

-----------------------------------------------------------------------------
(***************************************************************************)
(* The registered places, in the order they are asked.  An application     *)
(* bundle is trusted as a whole, another binary's directory by itself.     *)
(***************************************************************************)
Root(d) == IF Bundle[d] = None THEN d ELSE Bundle[d]

Registered(r, p, source, surface, platform, alias, root, names) ==
  IF ~IsBinary(r.world, p) THEN << >>
  ELSE << Row(source, surface, p, platform, alias, Trusted(r.world, root),
              Meta(Trusted(r.world, root), root, names)) >>

DesktopRow(r, p) ==
  IF r.platform = "windows"
  THEN Registered(r, p, "desktop_bundled", "desktop", "windows",
                  IF r.profiles = << >> THEN "DESKTOP_PROFILE" ELSE r.profiles[1].alias,
                  p[1], << "version.json", "AppxManifest.xml" >>)
  ELSE Registered(r, p, "desktop_bundled", "desktop", r.platform, "DESKTOP_PROFILE", Root(p[1]),
                  IF Bundle[p[1]] = None THEN << >> ELSE << "Info.plist" >>)

DesktopCliRow(r, p) ==
  Registered(r, p, "desktop_bundled", "cli", "windows", "DESKTOP_CLI_PROFILE", p[1],
             << "version.json", "package.json" >>)

MsixRow(r, p) ==
  Registered(r, p, "windows_msix", "desktop", "windows", "MSIX_PROFILE", p[1], << "AppxManifest.xml" >>)

Profile(platform) ==
  CASE platform = "linux" -> "LINUX_PROFILE" [] platform = "wsl" -> "WSL_PROFILE" [] OTHER -> None

\* enumerateLinuxCliCandidates, enumerateWslCliCandidates
RegisteredRow(r, p) ==
  LET platform == IF r.platform = "linux" THEN "linux" ELSE "wsl"
  IN  IF r.platform # "windows" /\ HostFile(r.world, p) THEN << >>
      ELSE Registered(r, p, IF platform = "linux" THEN "path" ELSE "wsl", "cli", platform,
                      Profile(platform), p[1], << "version.json", "package.json" >>)

-----------------------------------------------------------------------------
(***************************************************************************)
(* The search path.  An entry that is refused still counts, so that what   *)
(* follows keeps its rank.                                                 *)
(***************************************************************************)
Names == << "codex", "codex.exe" >>

Bundled(r, p) == r.platform = "macos" /\ \E n \in DOMAIN r.desktop : r.desktop[n] = p /\ IsBinary(r.world, p)

EntryUsable(r, d) == Real(r.world, d) /\ ~(Posix(r.platform) /\ HostMount(r.world, d))

\* Mutant: the entries that are refused are not counted.
Rank_Kept(r, n) == Len(SelectSeq(SubSeq(r.path, 1, n - 1), LAMBDA d : EntryUsable(r, d)))

Rank(r, n) == n - 1

EntryRows(r, n) ==
  LET d == r.path[n]
      Here(name) ==
        IF \/ ~EntryUsable(r, d) \/ Bundled(r, << d, name >>)
           \/ (Posix(r.platform) /\ HostFile(r.world, << d, name >>))
        THEN << >>
        ELSE Registered(r, << d, name >>, IF r.platform = "wsl" THEN "wsl" ELSE "path", "cli",
                        r.platform, Profile(r.platform), d, << "version.json", "package.json" >>)
      rows == FlattenSeq([k \in DOMAIN Names |-> Here(Names[k])])
  IN  [k \in DOMAIN rows |-> [rows[k] EXCEPT !.precedence = Rank(r, n)]]

PathRows(r) == FlattenSeq([n \in DOMAIN r.path |-> EntryRows(r, n)])

(***************************************************************************)
(* A package root: its binary, in bin or in the root, else its manifest.   *)
(***************************************************************************)
PackageRow(r, root) ==
  LET places == {p \in {1, 2} \X DOMAIN r.world :
                   IF p[1] = 1 THEN Parent[p[2]] = root ELSE p[2] = root}
      binaries == {b \in {1, 2} \X {1, 2} \X DOMAIN r.world :
                     << b[1], b[3] >> \in places /\ IsBinary(r.world, << b[3], Names[b[2]] >>)}
      first  == CHOOSE b \in binaries : \A c \in binaries : b[1] < c[1] \/ (b[1] = c[1] /\ b[2] <= c[2])
      Found(path) == << Row("package_manager", "cli", path, r.platform, None, {root},
                            Meta({root}, root, << "package.json", "version.json" >>)) >>
  IN  IF ~Real(r.world, root) \/ (Posix(r.platform) /\ HostMount(r.world, root)) THEN << >>
      ELSE IF binaries # {} THEN Found(<< first[3], Names[first[2]] >>)
      ELSE IF Kind(r.world, << root, "package.json" >>) = "file" THEN Found(<< root, "package.json" >>)
      ELSE << >>

-----------------------------------------------------------------------------
(***************************************************************************)
(* pushCandidate: what was seen is not pushed again, nor anything beyond   *)
(* the limit.                                                              *)
(***************************************************************************)
Key(r, c) ==
  IF r.platform = "windows" THEN << c.source, c.surface, c.path, c.alias >> ELSE << c.source, c.path >>

\* Mutant: one after the other, whether it was seen or not.
Push_Again(r, out, c) == IF Len(out) >= r.max THEN out ELSE Append(out, c)

Push(r, out, c) ==
  IF Len(out) >= r.max \/ \E n \in DOMAIN out : Key(r, out[n]) = Key(r, c) THEN out ELSE Append(out, c)

PushAll(r, out, rows) == FoldLeft(LAMBDA o, c : Push(r, o, c), out, rows)

(***************************************************************************)
(* A second profile of the user is told of by its marker, or by its        *)
(* control file, if a desktop was found at all.                            *)
(***************************************************************************)
ProfileRow(r, profile) ==
  LET at(name) == << profile.root, name >>
      Of(name) == << Row("path", "cli", at(name), "windows", profile.alias,
                         Trusted(r.world, profile.root), << >>) >>
  IN  IF r.world[profile.root].kind = "missing" THEN << >>
      ELSE IF IsBinary(r.world, at("profile-marker")) THEN Of("profile-marker")
      ELSE IF Kind(r.world, at("profile-marker")) = "missing" /\ Real(r.world, profile.root)
              /\ Kind(r.world, at("config.toml")) # "missing"
      THEN Of("config.toml")
      ELSE << >>

\* enumerateWindowsCandidates
WindowsCandidates(r) ==
  LET Make(F(_, _), paths) == FlattenSeq([n \in DOMAIN paths |-> F(r, paths[n])])
      found == PushAll(r, << >>,
                 Make(MsixRow, r.msix) \o Make(DesktopRow, r.desktop) \o Make(DesktopCliRow, r.cli)
                 \o PathRows(r) \o Make(PackageRow, r.packages) \o Make(RegisteredRow, r.registered))
  IN  IF \E n \in DOMAIN found : found[n].source = "desktop_bundled" /\ found[n].surface = "desktop"
      THEN PushAll(r, found, Make(ProfileRow, IF r.profiles = << >> THEN << >> ELSE Tail(r.profiles)))
      ELSE found

\* enumerateSystemCandidates
Candidates(r) ==
  LET Make(F(_, _), paths) == FlattenSeq([n \in DOMAIN paths |-> F(r, paths[n])])
  IN  IF r.platform = "windows" THEN WindowsCandidates(r)
      ELSE PushAll(r, << >>,
             Make(DesktopRow, r.desktop) \o PathRows(r) \o Make(PackageRow, r.packages)
             \o Make(RegisteredRow, r.registered))

-----------------------------------------------------------------------------
(***************************************************************************)
(* readVersionEvidence: what the adapter registered, then what stands      *)
(* beside the binary, without following a link and inside a trusted root.  *)
(***************************************************************************)
Inside(root, d) == d = root \/ Parent[d] = root

\* Mutant: the name is enough, whatever it is.
ReadVersion_Follow(w, p, roots) ==
  IF (\E root \in roots : Inside(root, p[1])) /\ p[2] \in DOMAIN w[p[1]].files
  THEN w[p[1]].files[p[2]].version ELSE None

\* readFileUnderAllowedRoots, resolveRegularFileUnderRoot
ReadVersion(w, p, roots) ==
  IF /\ \E root \in roots : Real(w, root) /\ Inside(root, p[1])
     /\ Real(w, p[1]) /\ Kind(w, p) = "file"
  THEN w[p[1]].files[p[2]].version ELSE None

Adjacent == << "version.json", "package.json", "Info.plist", "AppxManifest.xml" >>

VersionOf(w, c) ==
  LET beside == IF \E root \in c.roots : Inside(root, c.path[1])
                THEN [n \in DOMAIN Adjacent |-> << c.path[1], Adjacent[n] >>] ELSE << >>
      asked  == c.meta \o beside
      told   == {n \in DOMAIN asked : ReadVersion(w, asked[n], c.roots) # None}
  IN  IF told = {} THEN [version |-> None, from |-> None]
      ELSE LET n == CHOOSE m \in told : \A k \in told : m <= k
           IN  [version |-> ReadVersion(w, asked[n], c.roots), from |-> asked[n]]

\* toIdentity, instanceIdOf
Identity(w, c) ==
  [id |-> << c.domain, c.source, c.surface, c.path >>, path |-> c.path, candidate |-> c,
   version |-> VersionOf(w, c).version, from |-> VersionOf(w, c).from]

Identities(r) ==
  \* one evaluation of the candidates
  LET Of(found) == [n \in DOMAIN found |-> Identity(r.world, found[n])] IN Of(Candidates(r))

-----------------------------------------------------------------------------
(***************************************************************************)
(* resolveAffectedInstance.                                                *)
(***************************************************************************)
Answer(resolution, id, reason) == [resolution |-> resolution, id |-> id, reason |-> reason]

ByPath(instances, o) ==
  {instances[n].id : n \in {m \in DOMAIN instances : instances[m].path \in {o.process, o.log, o.launch}}}

ByVersion(instances, o) ==
  {n \in DOMAIN instances : o.version # None /\ instances[n].version = o.version}

\* Mutant: of two that are observed the first is taken.
Affected_First(instances, o) ==
  LET path == ByPath(instances, o)
      version == ByVersion(instances, o)
  IN  IF path # {} THEN Answer("identified", CHOOSE i \in path : TRUE, "identified")
      ELSE IF version # {}
      THEN Answer("identified", instances[CHOOSE n \in version : TRUE].id, "identified")
      ELSE Answer("ambiguous", None, "observed_evidence_no_match")

Affected(instances, o) ==
  LET path == ByPath(instances, o)
      version == ByVersion(instances, o)
  IN  IF instances = << >> THEN Answer("none", None, "no_instances")
      ELSE IF \A s \in DOMAIN o : o[s] = None
      THEN Answer("ambiguous", None, "no_observed_context")
      ELSE IF \E i \in path : path = {i}
      THEN Answer("identified", CHOOSE i \in path : TRUE, "identified")
      ELSE IF path # {} THEN Answer("ambiguous", None, "conflicting_observed_evidence")
      ELSE IF \E n \in version : version = {n}
      THEN Answer("identified", instances[CHOOSE n \in version : TRUE].id, "identified")
      ELSE IF version # {} THEN Answer("ambiguous", None, "version_match_ambiguous")
      ELSE Answer("ambiguous", None,
                  IF Len(instances) = 1 THEN "observed_evidence_no_match"
                  ELSE "multi_instance_insufficient_evidence")

-----------------------------------------------------------------------------
Init == request \in Requests /\ result = None

\* scanSystem's enumeration
Enumerate ==
  /\ result = None
  /\ result' = [instances |-> Identities(request), observed |-> None, answer |-> None]
  /\ UNCHANGED request

Resolve ==
  /\ result # None /\ result.answer = None
  /\ \E o \in Observations :
       result' = [result EXCEPT !.observed = o, !.answer = Affected(result.instances, o)]
  /\ UNCHANGED request

Next == Enumerate \/ Resolve

-----------------------------------------------------------------------------
Found == {result.instances[n] : n \in DOMAIN result.instances}

(***************************************************************************)
(* Two installations never share an identity (as long as the registered    *)
(* profiles have their own roots), and none is taken for one of another    *)
(* system: of a WSL distribution is only what was found in one or is       *)
(* registered as of one, whatever a Windows host finds at the same place.  *)
(***************************************************************************)
InstallationsStayApart ==
  result # None =>
    /\ \A n, m \in DOMAIN result.instances :
         result.instances[n].id = result.instances[m].id => n = m
    /\ \A i \in Found :
         /\ i.candidate.domain = "wsl_distro" =>
              \/ request.platform = "wsl"
              \/ i.candidate.source = "wsl" /\ \E n \in DOMAIN request.registered : request.registered[n] = i.path
         /\ i.candidate.source = "wsl" => i.candidate.domain = "wsl_distro"
         /\ request.platform = "linux" => i.candidate.domain = "native_linux"

(***************************************************************************)
(* On Linux and in a WSL distribution nothing of the Windows host is an    *)
(* installation or trusted to tell a version, by whatever name or link it  *)
(* is reached.  Nowhere is a version read through a link, from outside     *)
(* what is trusted.                                                        *)
(***************************************************************************)
EvidenceIsOfTheSystem ==
  result # None =>
    \A i \in Found :
      /\ Posix(request.platform) =>
           /\ request.world[i.path[1]].host = "no" \/ i.candidate.source = "package_manager"
           /\ \A root \in i.candidate.roots : request.world[root].host = "no"
           /\ i.candidate.source # "package_manager" => i.path[2] \notin request.world[i.path[1]].leading
      /\ i.from # None =>
           /\ request.world[i.from[1]].kind = "dir"
           /\ request.world[i.from[1]].files[i.from[2]].kind = "file"
           /\ \E root \in i.candidate.roots : Inside(root, i.from[1])

(***************************************************************************)
(* The rank of an installation is where the search path first names its    *)
(* directory, whatever was refused before.                                 *)
(***************************************************************************)
RankIsThePaths ==
  result # None =>
    \A i \in Found :
      i.candidate.precedence # None =>
        /\ request.path[i.candidate.precedence + 1] = i.path[1]
        /\ \A n \in 1..i.candidate.precedence : request.path[n] # i.path[1]

(***************************************************************************)
(* An instance is identified only by what was observed of it: its own path *)
(* or, when no path is one of an instance, a version no other has.  Alone  *)
(* or the newest is not enough; and one that is identified stays so        *)
(* whichever of the others is not installed.                               *)
(***************************************************************************)
AffectedIsObserved ==
  (result # None /\ result.answer # None /\ result.answer.resolution = "identified") =>
    \E n \in DOMAIN result.instances :
      LET i == result.instances[n]
          o == result.observed
      IN  /\ i.id = result.answer.id
          /\ i.path \in {o.process, o.log, o.launch} \/ (o.version # None /\ i.version = o.version)
          /\ \A m \in DOMAIN result.instances \ {n} :
               /\ result.instances[m].path \notin {o.process, o.log, o.launch}
               /\ Affected(RemoveAt(result.instances, m), o) = result.answer
=============================================================================
