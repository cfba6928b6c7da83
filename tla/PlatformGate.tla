------------------------------ MODULE PlatformGate ------------------------------
(***************************************************************************)
(* What lets a repair write: the proof that the exact target is disposable *)
(* (src/platform/capability.ts, src/platform/macos/adapter.ts and          *)
(* src/core/path-safety.ts), the capability that follows from it, the      *)
(* write gate, the Windows write scope (windows-write-gate.ts and          *)
(* instances/windows/policy.ts), and the order in which the preview and    *)
(* the apply of src/core/recovery/engine.ts ask them.                      *)
(*                                                                         *)
(* A path is its sequence of names.  A file system is its directories, its *)
(* links, and who owns what.  Links may change between the two calls.      *)
(***************************************************************************)
EXTENDS Paths

CONSTANTS
  Requests,    \* [target, host, seam, markers, caller, known_managed, mechanism,
               \*  policy, now, later]: what is asked, in which process, and the file
               \* systems [dirs, links, foreign, home, tmpdir] of the two calls
  Names,       \* what a path is a sequence of
  None

VARIABLES
  request,     \* the environment of the process and what is asked of it
  run,         \* the file system
  result       \* what the calls answered

vars == << request, run, result >>

-----------------------------------------------------------------------------
(***************************************************************************)
(* fs.realpath and fs.lstat.  Three hops are more than a world has links.  *)
(***************************************************************************)
Hop(w, p) ==
  LET through == {n \in 1..Len(p) : SubSeq(p, 1, n) \in DOMAIN w.links}
      n       == CHOOSE m \in through : \A k \in through : m <= k
  IN  IF through = {} THEN p
      ELSE w.links[SubSeq(p, 1, n)] \o SubSeq(p, n + 1, Len(p))

Canonical(w, p) == Hop(w, Hop(w, Hop(w, p)))

Realpath(w, p) == IF Canonical(w, p) \in w.dirs THEN Canonical(w, p) ELSE None

Lstat(w, p) ==
  LET node == IF p = << >> THEN p ELSE Append(Canonical(w, Front(p)), Last(p))
  IN  IF node \in DOMAIN w.links THEN "link"
      ELSE IF node \in w.dirs THEN "dir" ELSE "missing"

Reals(w, S) == {Realpath(w, p) : p \in S} \ {None}

(***************************************************************************)
(* What a file system is: a directory stands in directories, and no link   *)
(* is one of them.                                                         *)
(***************************************************************************)
FileSystem(w) ==
  /\ w.dirs \subseteq Seq(Names) /\ None \notin w.dirs
  /\ w.home \in Seq(Names) /\ w.tmpdir \in Seq(Names)
  /\ \A l \in DOMAIN w.links : w.links[l] \in Seq(Names)
  /\ \A d \in w.dirs : \A n \in 0..Len(d) : SubSeq(d, 1, n) \in w.dirs \ DOMAIN w.links

SoundRequests ==
  /\ {"tmp", ".codex"} \subseteq Names
  /\ None \notin {"APPLIED", "ACTIVE_CODEX_PROFILE_REFUSED", "HOME_ROOT_REFUSED",
                  "PROTECTED_ROOT_REFUSED"}
  /\ \A r \in Requests :
       FileSystem(r.now) /\ FileSystem(r.later) /\ r.target \in Seq(Names)

-----------------------------------------------------------------------------
(***************************************************************************)
(* assertDisposableTarget and what it is made of.                          *)
(***************************************************************************)
Protected(p) == IsPrefix(<< "usr" >>, p)

\* isHostMountPath: by its shape, or by where what is there leads.
HostMount(w, p) ==
  \/ IsPrefix(<< "mnt", "c" >>, p)
  \/ Lstat(w, p) # "missing" /\ IsPrefix(<< "mnt", "c" >>, Canonical(w, p))

\* listTrustedDisposableRoots: what is not there stands for itself.
TrustedRoots(w) ==
  {IF Realpath(w, p) = None THEN p ELSE Realpath(w, p) : p \in {<< "tmp" >>, w.tmpdir}}

Codex(home) == Append(home, ".codex")

\* Mutant: the name of the profile only, not where it leads.
ActiveDenyRoots_Logical(w) == {Codex(w.home)}

\* collectActiveCodexDenyRoots
ActiveDenyRoots(w) ==
  LET named == {Codex(w.home)} \cup {Codex(h) : h \in Reals(w, {w.home})}
  IN  named \cup Reals(w, named)

\* classifyDeniedPath
Denied(w, p) ==
  IF \E root \in ActiveDenyRoots(w) : IsPrefix(root, p) THEN "ACTIVE_CODEX_PROFILE_REFUSED"
  ELSE IF p \in {w.home} \cup Reals(w, {w.home}) THEN "HOME_ROOT_REFUSED"
  ELSE IF Protected(p) THEN "PROTECTED_ROOT_REFUSED"
  ELSE None

\* nearestExistingAncestor
Ancestor(w, p) ==
  LET there == {n \in 0..Len(p) : Lstat(w, SubSeq(p, 1, n)) # "missing"}
  IN  SubSeq(p, 1, CHOOSE n \in there : \A m \in there : m <= n)

\* Where the target is, or will be once it is made; None if that cannot be told.
Location(w, p) ==
  LET a == Ancestor(w, p)
  IN  IF Realpath(w, a) = None THEN None
      ELSE Realpath(w, a) \o SubSeq(p, Len(a) + 1, Len(p))

\* assertDisposableTarget with requireTrustedRoot
Disposable(w, p) ==
  LET real == Location(w, p)
  IN  IF Denied(w, p) # None THEN Denied(w, p)
      ELSE IF Lstat(w, p) = "link" THEN "SYMLINK_REFUSED"
      ELSE IF real = None
      THEN IF Lstat(w, Ancestor(w, p)) = "link" THEN "SYMLINK_REFUSED" ELSE "REALPATH_UNPROVABLE"
      ELSE IF Lstat(w, p) = "missing" /\ Denied(w, Realpath(w, Ancestor(w, p))) # None
      THEN Denied(w, Realpath(w, Ancestor(w, p)))
      ELSE IF Denied(w, real) # None THEN Denied(w, real)
      ELSE IF Lstat(w, p) = "dir" /\ real \in w.foreign THEN "OWNER_UID_REFUSED"
      ELSE IF ~\E root \in TrustedRoots(w) : IsPrefix(root, real) THEN "UNTRUSTED_ROOT_REFUSED"
      ELSE "ok"

\* resolveTargetDirectory
TargetDirectory(w, p) ==
  CASE Lstat(w, p) = "missing" -> "TARGET_NOT_FOUND"
    [] Lstat(w, p) = "link" -> "SYMLINK_ESCAPE"
    [] OTHER -> "ok"

\* Mutant: the shared temporary root itself will do.
Proved_AnyUnder(w, p) ==
  /\ TargetDirectory(w, p) = "ok"
  /\ ~HostMount(w, p) /\ ~HostMount(w, Realpath(w, p))
  /\ Disposable(w, p) = "ok"

\* proveIsolatedFixtureTarget
Proved(w, p) ==
  /\ TargetDirectory(w, p) = "ok"
  /\ ~HostMount(w, p) /\ ~HostMount(w, Realpath(w, p))
  /\ Disposable(w, p) = "ok" /\ Location(w, p) = Realpath(w, p)
  /\ Realpath(w, p) \notin TrustedRoots(w)

-----------------------------------------------------------------------------
(***************************************************************************)
(* Capability.                                                             *)
(***************************************************************************)
Adapter(host) ==
  IF host.wsl THEN "wsl"
  ELSE CASE host.platform = "darwin" -> "macos" [] host.platform = "win32" -> "windows"
         [] host.platform = "linux" -> "linux" [] OTHER -> "unknown"

DefaultStatus(adapter) ==
  CASE adapter \in {"macos", "windows"} -> "PREVIEW"
    [] adapter \in {"linux", "wsl", "enterprise_managed"} -> "LIMITED"
    [] OTHER -> "READ_ONLY"

Capability(status, isolation, limited) ==
  [status |-> status, isolation |-> isolation, limited |-> limited]

\* productionRepairCapabilityOptions
Production(host) == Capability(DefaultStatus(Adapter(host)), "production_unknown", FALSE)

\* Mutant: the switch alone is an authorization.
PublicCapability_SeamOnly(host, seam, w, p) ==
  IF seam THEN Capability("PREVIEW", "isolated_fixture", FALSE) ELSE Production(host)

\* resolvePublicRepairCapability
PublicCapability(host, seam, w, p) ==
  IF seam /\ Proved(w, p) THEN Capability("PREVIEW", "isolated_fixture", FALSE)
  ELSE Production(host)

Isolated == {"isolated_fixture", "user_owned_registered"}

\* evaluateWriteGate
WriteGate(cap, managed) ==
  IF managed THEN "ADMIN_OR_MANAGED_BLOCK"
  ELSE IF cap.status = "READ_ONLY" THEN "CAPABILITY_READ_ONLY"
  ELSE IF cap.status = "LIMITED" /\ ~(cap.limited /\ cap.isolation \in Isolated)
  THEN "CAPABILITY_LIMITED_WRITE_DISABLED"
  ELSE IF cap.isolation \notin Isolated THEN "ISOLATION_REQUIRED"
  ELSE "ALLOWED"

\* normalizeRepairCapability, for a caller that passes nothing.
Omitted == Capability("READ_ONLY", "production_unknown", FALSE)

-----------------------------------------------------------------------------
(***************************************************************************)
(* The Windows write scope.  A path is judged by the markers it carries:   *)
(* the alias directory, the system and package zones, a program's name,    *)
(* the profile's directories, a registered root.                           *)
(***************************************************************************)
\* resolveTrustedHostPlatform: a Windows process is never anything else.
TrustedPlatform(host) ==
  IF host.platform = "win32" THEN "win32"
  ELSE IF host.injected # None THEN host.injected
  ELSE IF host.keyed # None THEN host.keyed
  ELSE host.platform

\* Mutant: what the profile holds is the user's, whatever it is.
WriteScope_OwnedFirst(markers, managed) ==
  IF managed THEN "admin_required"
  ELSE IF markers \cap {"registered", "profile"} # {} THEN "user_owned"
  ELSE IF markers \cap {"alias", "system", "binary"} # {} THEN "forbidden_system"
  ELSE "unknown"

\* classifyWriteTarget
WriteScope(markers, managed) ==
  IF managed THEN "admin_required"
  ELSE IF markers \cap {"alias", "system"} # {} THEN "forbidden_system"
  ELSE IF "binary" \in markers THEN "forbidden_system"
  ELSE IF markers \cap {"registered", "profile"} # {} THEN "user_owned"
  ELSE "unknown"

\* evaluateWindowsWriteGate over the paths it is given.
WindowsBlocks(host, paths, managed) ==
  /\ TrustedPlatform(host) = "win32"
  /\ \E markers \in paths : WriteScope(markers, managed) # "user_owned"

-----------------------------------------------------------------------------
(***************************************************************************)
(* The two calls.  "public" is the command line or the tool server,        *)
(* "omitted" a caller that names no capability, "granted" one inside the   *)
(* process that does.                                                      *)
(***************************************************************************)
Init == request \in Requests /\ run = request.now /\ result = None

Given ==
  CASE request.caller = "public" ->
         PublicCapability(request.host, request.seam, run, request.target)
    [] request.caller = "omitted" -> Omitted
    [] OTHER -> Capability("LIMITED", "user_owned_registered", request.seam)

Gate == WriteGate(Given, FALSE)

\* previewConfigRepair: the policy is answered for before the gate.
ConfigPreview ==
  IF request.policy THEN "ADMIN_ACTION_REQUIRED"
  ELSE IF Gate # "ALLOWED" THEN "WRITE_DISABLED"
  ELSE IF request.mechanism = "none" THEN "NOT_APPLICABLE"
  ELSE "REPAIR_PREVIEWED"

\* previewRepair
PreviewRepair ==
  /\ result = None
  /\ result' =
       [apply |-> None, wrote |-> FALSE,
        preview |->
          IF TargetDirectory(run, request.target) # "ok" THEN TargetDirectory(run, request.target)
          ELSE IF WindowsBlocks(request.host, {request.markers[1]}, request.known_managed)
          THEN "ADMIN_ACTION_REQUIRED"
          ELSE IF request.mechanism \in {"plugin_cache", "protected_process"}
          THEN IF Gate = "ALLOWED" THEN "REPAIR_PREVIEWED" ELSE "WRITE_DISABLED"
          ELSE ConfigPreview]
  /\ UNCHANGED << request, run >>

\* Somebody changes the directories before the repair is applied.
Swap ==
  /\ result # None /\ result.apply = None /\ run # request.later
  /\ run' = request.later
  /\ UNCHANGED << request, result >>

\* Mutant: the scope of the directory stands for the scope of the file.
ApplyAnswer_DirectoryOnly ==
  IF Gate # "ALLOWED" THEN "WRITE_DISABLED"
  ELSE IF TargetDirectory(run, request.target) # "ok" THEN TargetDirectory(run, request.target)
  ELSE IF WindowsBlocks(request.host, {request.markers[1]}, request.known_managed)
  THEN "ADMIN_ACTION_REQUIRED"
  ELSE IF request.mechanism = "config" /\ request.policy THEN "ADMIN_ACTION_REQUIRED"
  ELSE "APPLIED"

\* applyRepair, up to its first write, with a token that is good.
ApplyAnswer ==
  IF Gate # "ALLOWED" THEN "WRITE_DISABLED"
  ELSE IF TargetDirectory(run, request.target) # "ok" THEN TargetDirectory(run, request.target)
  ELSE IF WindowsBlocks(request.host, {request.markers[1]}, request.known_managed)
  THEN "ADMIN_ACTION_REQUIRED"
  ELSE IF request.mechanism = "config" /\ request.policy THEN "ADMIN_ACTION_REQUIRED"
  ELSE IF WindowsBlocks(request.host, {request.markers[1], request.markers[2]}, request.known_managed)
  THEN "ADMIN_ACTION_REQUIRED"
  ELSE "APPLIED"

ApplyRepair ==
  /\ result # None /\ result.preview = "REPAIR_PREVIEWED" /\ result.apply = None
  /\ result' = [result EXCEPT !.apply = ApplyAnswer, !.wrote = ApplyAnswer = "APPLIED"]
  /\ UNCHANGED << request, run >>

Next == PreviewRepair \/ Swap \/ ApplyRepair

Spec == Init /\ [][Next]_vars

-----------------------------------------------------------------------------
(***************************************************************************)
(* What the command line or the tool server lets write is a directory of   *)
(* the user's own, strictly beneath a temporary root, wherever the links   *)
(* lead at that moment, and never the home, the active profile or anything *)
(* in it, a host drive or a system directory; and the switch is set.       *)
(***************************************************************************)
PublicWritesAreDisposable ==
  (result # None /\ result.wrote /\ request.caller = "public") =>
    LET real == Canonical(run, request.target)
    IN  /\ request.seam
        /\ real \in run.dirs \ run.foreign
        /\ \E root \in {Canonical(run, << "tmp" >>), Canonical(run, run.tmpdir)} :
             IsPrefix(root, real) /\ root # real
        /\ ~IsPrefix(Canonical(run, Codex(run.home)), real)
        /\ real # Canonical(run, run.home)
        /\ \A zone \in {<< "usr" >>, << "mnt", "c" >>} : ~IsPrefix(zone, real)

(***************************************************************************)
(* A caller that names no capability writes nowhere, and one that grants   *)
(* itself a limited platform writes only with the explicit switch.         *)
(***************************************************************************)
NothingByDefault ==
  (result # None /\ result.wrote) => request.caller # "omitted" /\ request.seam

(***************************************************************************)
(* On Windows nothing is written beside or over a program, in a package or *)
(* system directory, or where ownership is unclear or an administrator's,  *)
(* whatever platform is claimed.                                           *)
(***************************************************************************)
WindowsWritesAreTheUsers ==
  (result # None /\ result.wrote
     /\ (request.host.platform = "win32" \/ TrustedPlatform(request.host) = "win32")) =>
    /\ ~request.known_managed
    /\ \A n \in {1, 2} :
         /\ request.markers[n] \cap {"alias", "system", "binary"} = {}
         /\ request.markers[n] \cap {"registered", "profile"} # {}

(***************************************************************************)
(* A policy over the configuration is always answered with the way to the  *)
(* administrator, never with a refusal of the platform or a preview.       *)
(***************************************************************************)
PolicyGoesToTheAdministrator ==
  (/\ result # None /\ request.policy /\ request.mechanism \in {"config", "none"}
   /\ result.preview \notin {"TARGET_NOT_FOUND", "SYMLINK_ESCAPE"}) =>
    result.preview = "ADMIN_ACTION_REQUIRED"

(* Nothing is written but what is disposable or the user's, and allowed. *)
WritesAreGated ==
  /\ PublicWritesAreDisposable /\ NothingByDefault
  /\ WindowsWritesAreTheUsers /\ PolicyGoesToTheAdministrator
=============================================================================
