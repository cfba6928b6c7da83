--------------------------- MODULE PluginCacheRepair ---------------------------
(***************************************************************************)
(* The plugin-cache repair (src/core/recovery: the plugin pack of          *)
(* engine.ts, plugin-cache.ts, renameToQuarantine): a transaction over two *)
(* files, the cache entry and the manifest.  Both are backed up, the cache *)
(* entry may be moved to a quarantine and written anew, the trusted bytes  *)
(* replace it, a session is saved, and one reconciliation cycle, which may *)
(* itself overwrite the cache, is run before the repair is verified.       *)
(*                                                                         *)
(* Calls run one at a time (Recovery has them overlap); a user edits       *)
(* either file between calls or during one, writes fail, the process dies. *)
(* (A token that expires is refused like one whose bytes have changed.)    *)
(* job.opened: the inode that the next replacement expects is at the path. *)
(***************************************************************************)
EXTENDS PluginCache, FiniteSets

CONSTANTS
  Contents,     \* bytes of the cache entry
  Trusted,      \* the content of the registered rebuild source
  Manifests,    \* contents of the manifest, as records of what they require
  Installs,     \* what inventory, recon record, bundled and intent files say
  Tokens, NoToken, NoManifest,
  Edits,        \* when a user edits: a subset of {"between", "during"}
  MaxFails,     \* bound: failing writes in one call
  MaxCrashes    \* bound: calls that die

ASSUME PluginRepairAssumption ==
  /\ Trusted \in Contents /\ NoContent \notin Contents
  /\ \A i \in Installs : i.bundled \in Contents \cup {NoContent}
  /\ NoToken \notin Tokens /\ NoManifest \notin Manifests
  /\ MaxFails \in Nat /\ MaxCrashes \in Nat

VARIABLES
  install,     \* the rest of the installation, which no call changes
  armed,       \* recon-state: will_overwrite_on_next_cycle
  cache,       \* the cache entry and, as history, who put it there
  manifest,    \* the manifest and who put it there
  quarantine,  \* the quarantined cache entry
  backup,      \* .changeguard/backup of the pair
  session,     \* .changeguard/session.json
  tokens,      \* the cache bytes each token binds
  pc, job,     \* the running call: its step, and its locals
  crashes,
  before,      \* history: the bytes the last repair found in the cache, or will find
  raced        \* history: the cache entry was edited during the last repair

vars == << install, armed, cache, manifest, quarantine, backup, session, tokens,
           pc, job, crashes, before, raced >>

Steps == {"idle", "token", "live", "backupCache", "backupManifest", "qunlink",
          "qcheck", "qmove", "qrewrite", "reopen", "check", "rename", "posthash",
          "save", "recon", "verify", "restoreCache", "restoreManifest", "commit"}
Purposes == {"repair", "restore", "undo", "rollback", "verify"}
Writers  == {"user", "pending", "verified", "recon", "rolled", "undone", "nobody"}

NoSession == [status |-> "none", token |-> NoToken, orig |-> NoContent,
              manifest |-> NoManifest]
NoJob == [what |-> "verify", token |-> NoToken, orig |-> NoContent,
          manifest |-> NoManifest, quarantine |-> FALSE, opened |-> FALSE, fails |-> 0,
          raced |-> FALSE]

\* The observation of the installation as it is now.
Live == [dependency_install_failure |-> install.dependency_install_failure,
         listed |-> TRUE, provenance |-> install.provenance,
         version |-> install.version, generation |-> install.generation,
         component_version |-> manifest.content.version,
         required_version |-> manifest.content.version,
         required_generation |-> manifest.content.generation,
         expected |-> manifest.content.expected, rebuild |-> manifest.content.rebuild,
         measured |-> cache.content, trusted |-> Trusted, bundled |-> install.bundled,
         overwrote |-> install.overwrote, intent |-> install.intent,
         recon_intent |-> install.intent]

Present == cache.content # NoContent
Idle == pc = "idle"

\* The call goes on, or ends and its locals are gone.
Then(step) == pc' = step /\ UNCHANGED job
End == pc' = "idle" /\ job' = NoJob

Restore(j, purpose) == job' = [j EXCEPT !.what = purpose] /\ pc' = "restoreCache"

\* Mutant: an error ends an apply as it does a rollback.
Raise_Ends(j) == End

(***************************************************************************)
(* An exception: once both backups are there it leads, in an apply, to the *)
(* best-effort restore of the cache alone; elsewhere it ends the call.     *)
(***************************************************************************)
Raise(j) == IF j.what \in {"repair", "restore"} THEN Restore(j, "undo") ELSE End
OnError == Raise(job)


\* A write of the call fails; the call is told.
WriteFails == job.fails < MaxFails
Failed == [job EXCEPT !.fails = @ + 1]
OnWriteError == WriteFails /\ Raise(Failed)

Init ==
  /\ install \in Installs /\ armed \in BOOLEAN
  /\ cache \in [content : Contents, by : {"user"}]
  /\ manifest \in [content : Manifests, by : {"user"}]
  /\ quarantine = NoContent
  /\ backup = [cache |-> NoContent, manifest |-> NoManifest]
  /\ session = NoSession
  /\ tokens = [t \in Tokens |-> NoContent]
  /\ pc = "idle" /\ job = NoJob /\ crashes = 0
  /\ before = cache.content /\ raced = FALSE

files == << cache, manifest, quarantine, backup, session >>
world == << install, armed, tokens, crashes, before, raced >>

\* buildPluginCacheCapsule: what a token binds of the installation it measured.
\* (The trusted content, its other binding, does not change here.)
Bound == cache.content

\* previewPluginCacheRepair mints a token for what can be repaired.
Preview(t) ==
  /\ Idle /\ tokens[t] = NoContent
  /\ Present /\ Plannable(Live)
  /\ tokens' = [tokens EXCEPT ![t] = Bound]
  /\ UNCHANGED << files, install, armed, pc, job, crashes, before, raced >>

Apply(t) ==
  /\ Idle /\ tokens[t] # NoContent
  /\ job' = [NoJob EXCEPT !.what = "repair", !.token = t, !.orig = tokens[t]]
  /\ pc' = "token"
  /\ UNCHANGED << files, world >>

\* refuseConsumedToken, as for every pack.
CheckToken ==
  /\ pc = "token"
  /\ IF /\ session.status \in {"resolved_verified", "explicit_rollback"}
        /\ session.token = job.token
     THEN End
     ELSE Then("live")
  /\ UNCHANGED << files, world >>

(***************************************************************************)
(* recomputePluginCacheLiveBinding: the plan is made again and must be the *)
(* one the token binds; it decides on the quarantine and remembers the     *)
(* manifest it saw.                                                        *)
(***************************************************************************)
OpenLive ==
  /\ pc = "live"
  /\ IF /\ Present /\ cache.content = job.orig
        /\ Plannable(Live)
     THEN /\ job' = [job EXCEPT !.manifest = manifest.content,
                                !.quarantine = Quarantines(Classify(Live)),
                                !.opened = TRUE]
          /\ pc' = "backupCache"
          /\ before' = cache.content /\ raced' = FALSE
     ELSE End /\ UNCHANGED << before, raced >>
  /\ UNCHANGED << files, install, armed, tokens, crashes >>

\* Mutant: the cache is backed up only where there is no backup of it yet.
BackedCache_KeepsFirst ==
  IF backup.cache = NoContent THEN [backup EXCEPT !.cache = job.orig] ELSE backup

BackedCache == [backup EXCEPT !.cache = job.orig]

\* backupPluginCachePair; its receipt exists once both are written.
BackupCache ==
  /\ pc = "backupCache"
  /\ \/ backup' = BackedCache /\ Then("backupManifest")
     \/ WriteFails /\ End /\ backup' \in {backup, BackedCache}
  /\ UNCHANGED << cache, manifest, quarantine, session, world >>

\* Mutant: the manifest is backed up only where there is no backup of it yet.
BackedManifest_KeepsFirst ==
  IF backup.manifest = NoManifest
  THEN [backup EXCEPT !.manifest = job.manifest] ELSE backup

BackedManifest == [backup EXCEPT !.manifest = job.manifest]

BackupManifest ==
  /\ pc = "backupManifest"
  /\ \/ backup' = BackedManifest
        /\ Then(IF job.quarantine THEN "qunlink" ELSE "check")
     \/ WriteFails /\ End /\ backup' \in {backup, BackedManifest}
  /\ UNCHANGED << cache, manifest, quarantine, session, world >>

-----------------------------------------------------------------------------
\* renameToQuarantine

\* The previous quarantine is unlinked.
QuarantineUnlink ==
  /\ pc = "qunlink"
  /\ \/ quarantine' = NoContent /\ Then("qcheck")
     \/ OnWriteError /\ UNCHANGED quarantine
  /\ UNCHANGED << cache, manifest, backup, session, world >>

\* The cache must still be the file that was opened, with the same bytes.
QuarantineCheck ==
  /\ pc = "qcheck"
  /\ IF job.opened /\ cache.content = job.orig
     THEN Then("qmove") ELSE OnError
  /\ UNCHANGED << files, world >>

\* The rename takes whatever is at the path by now.
QuarantineMove ==
  /\ pc = "qmove"
  /\ \/ /\ Present
        /\ quarantine' = cache.content
        /\ cache' = [content |-> NoContent, by |-> "nobody"]
        /\ job' = [job EXCEPT !.opened = FALSE]
        /\ pc' = "qrewrite"
     \/ OnWriteError /\ UNCHANGED << quarantine, cache >>
  /\ UNCHANGED << manifest, backup, session, world >>

\* The bytes read before are written back under the original name.
QuarantineRewrite ==
  /\ pc = "qrewrite"
  /\ \/ /\ cache' = [content |-> job.orig, by |-> "undone"]
        /\ Then("reopen")
     \/ OnWriteError /\ UNCHANGED cache
  /\ UNCHANGED << manifest, quarantine, backup, session, world >>

\* applyPluginCacheRepair opens the rewritten file, whatever it holds by now.
Reopen ==
  /\ pc = "reopen"
  /\ job' = [job EXCEPT !.opened = TRUE] /\ pc' = "check"
  /\ UNCHANGED << files, world >>

-----------------------------------------------------------------------------
\* atomicReplaceFile with the trusted bytes

Check ==
  /\ pc = "check"
  /\ IF job.opened THEN Then("rename") ELSE OnError
  /\ UNCHANGED << files, world >>

Rename ==
  /\ pc = "rename"
  /\ \/ /\ cache' = [content |-> Trusted, by |-> "pending"]
        /\ Then("posthash")
     \/ OnWriteError /\ UNCHANGED cache
  /\ UNCHANGED << manifest, quarantine, backup, session, world >>

PostHash ==
  /\ pc = "posthash"
  /\ IF cache.content = Trusted THEN Then("save") ELSE OnError
  /\ UNCHANGED << files, world >>

SessionOf(status) == [status |-> status, token |-> job.token, orig |-> job.orig,
                      manifest |-> job.manifest]

\* writeSessionState before the verification.
Save ==
  /\ pc = "save"
  /\ \/ session' = SessionOf("applied_pending_verify")
        /\ Then("recon")
     \/ OnWriteError /\ UNCHANGED session
  /\ UNCHANGED << cache, manifest, quarantine, backup, world >>

-----------------------------------------------------------------------------
\* runPluginCacheVerification

\* Where a verification ends that did not pass.
VerifyFailed(j) == IF j.what = "repair" THEN Restore(j, "restore") ELSE End
VerifyFails == VerifyFailed(job)

\* Mutant: the reconciliation cycle overwrites and no recurrence is noted.
Recurred_Unnoticed == Then("verify")

\* An overwrite is a recurrence, whatever bytes it wrote.
Recurred == VerifyFails

(***************************************************************************)
(* One reconciliation cycle: armed, it writes the bundled bytes over the   *)
(* cache, through the same replacement (one step here: an edit inside it   *)
(* is either refused or overwritten).  The harness sentinel, a missing     *)
(* file and a failing write fail the verification before or instead.       *)
(***************************************************************************)
Reconcile ==
  /\ pc = "recon"
  /\ \/ /\ armed /\ Present /\ install.bundled # NoContent
        /\ cache' = [content |-> install.bundled, by |-> "recon"]
        /\ before' = install.bundled
        /\ Recurred
     \/ ~armed /\ Then("verify") /\ UNCHANGED << cache, before >>
     \/ armed /\ WriteFails /\ VerifyFailed(Failed) /\ UNCHANGED << cache, before >>
     \/ VerifyFails /\ UNCHANGED << cache, before >>
  /\ UNCHANGED << manifest, quarantine, backup, session, install, armed, tokens,
                  crashes, raced >>

\* The checks after the cycle; the health file may fail them.
Verify ==
  /\ pc = "verify"
  /\ \/ /\ cache.content = Trusted /\ cache.content # job.orig /\ Classify(Live) = NoMechanism
        /\ Then(IF job.what = "repair" THEN "commit" ELSE "idle")
     \/ VerifyFails
  /\ UNCHANGED << files, world >>

\* The session consumes the token; RESOLVED_VERIFIED is returned.
Commit ==
  /\ pc = "commit"
  /\ \/ /\ session' = SessionOf("resolved_verified")
        /\ cache' = [cache EXCEPT !.by = IF @ = "pending" THEN "verified" ELSE @]
        /\ Then("idle")
     \/ OnWriteError /\ UNCHANGED << session, cache >>
  /\ UNCHANGED << manifest, quarantine, backup, world >>

-----------------------------------------------------------------------------
\* restoreFromBackup, of the cache and then of the manifest

\* Mutant: the session is written as soon as the cache is restored.
AfterCache_Saves == IF job.what = "undo" THEN "idle" ELSE "restored"

\* The best-effort restore of a failed apply leaves the manifest alone.
AfterCache == IF job.what = "undo" THEN "idle" ELSE "restoreManifest"

\* Mutant: the bytes put back are those of the quarantine.
Restored_Quarantine ==
  [content |-> quarantine, by |-> IF job.what = "undo" THEN "undone" ELSE "rolled"]

Restored ==
  [content |-> job.orig, by |-> IF job.what = "undo" THEN "undone" ELSE "rolled"]

(***************************************************************************)
(* restoreFromBackup needs the backup of the very bytes, and a file at the *)
(* path: a missing one is not created.  Its own replacement is one step    *)
(* here.  It asks nothing of the bytes that it overwrites and keeps none   *)
(* of them; `before` forgets those that came after the repair.             *)
(***************************************************************************)
RestoreCache ==
  /\ pc = "restoreCache"
  /\ IF Present /\ backup.cache = job.orig
     THEN \/ /\ cache' = Restored
             /\ before' = IF cache.by \in {"user", "recon"} THEN job.orig ELSE before
             /\ Then(AfterCache)
          \/ OnWriteError /\ UNCHANGED << cache, before >>
     ELSE OnError /\ UNCHANGED << cache, before >>
  /\ UNCHANGED << manifest, quarantine, backup, session, install, armed, tokens,
                  crashes, raced >>

RestoreManifest ==
  /\ pc = "restoreManifest"
  /\ IF backup.manifest = job.manifest
     THEN \/ /\ manifest' = [content |-> job.manifest, by |-> "rolled"]
             /\ Then("restored")
          \/ OnWriteError /\ UNCHANGED manifest
     ELSE OnError /\ UNCHANGED << manifest >>
  /\ UNCHANGED << cache, quarantine, backup, session, world >>

\* The session of an automatic or an explicit rollback.
SaveRestored ==
  /\ pc = "restored"
  /\ \/ session' = SessionOf(IF job.what = "restore" THEN "auto_rolled_back"
                             ELSE "explicit_rollback")
        /\ Then("idle")
     \/ OnWriteError /\ UNCHANGED session
  /\ UNCHANGED << cache, manifest, quarantine, backup, world >>

\* What a call that starts from the session works on.
FromSession(what) ==
  job' = [NoJob EXCEPT !.what = what, !.token = session.token,
                       !.orig = session.orig, !.manifest = session.manifest]

\* rollbackRepair
Rollback ==
  /\ Idle /\ session.status # "none"
  /\ FromSession("rollback") /\ pc' = "restoreCache"
  /\ UNCHANGED << files, world >>

\* verifyRepair: only a session that still has a result can be verified.
VerifyAgain ==
  /\ Idle /\ session.status \in {"applied_pending_verify", "resolved_verified"}
  /\ FromSession("verify") /\ pc' = "recon"
  /\ UNCHANGED << files, world >>

-----------------------------------------------------------------------------
\* The surroundings

Crash ==
  /\ ~Idle /\ crashes < MaxCrashes
  /\ crashes' = crashes + 1 /\ End
  /\ UNCHANGED << files, install, armed, tokens, before, raced >>

MayEdit == (Idle /\ "between" \in Edits) \/ "during" \in Edits

\* The user writes the cache entry; the inode is a new one.
EditCache(c) ==
  /\ MayEdit /\ c # cache.content
  /\ cache' = [content |-> c, by |-> "user"]
  /\ before' = c
  /\ raced' = ~Idle
  /\ job' = [job EXCEPT !.opened = FALSE, !.raced = ~Idle]
  /\ UNCHANGED << install, armed, manifest, quarantine, backup, session, tokens, pc,
                  crashes >>

EditManifest(m) ==
  /\ MayEdit /\ m # manifest.content
  /\ manifest' = [content |-> m, by |-> "user"]
  /\ job' = [job EXCEPT !.raced = ~Idle]
  /\ UNCHANGED << install, armed, cache, quarantine, backup, session, tokens, pc,
                  crashes, before, raced >>

\* Codex changes its mind about the next reconciliation cycle.
Rearm ==
  /\ Idle
  /\ armed' = ~armed
  /\ UNCHANGED << files, install, tokens, pc, job, crashes, before, raced >>

Next ==
  \/ \E t \in Tokens : Preview(t) \/ Apply(t)
  \/ CheckToken \/ OpenLive \/ BackupCache \/ BackupManifest
  \/ QuarantineUnlink \/ QuarantineCheck \/ QuarantineMove \/ QuarantineRewrite \/ Reopen
  \/ Check \/ Rename \/ PostHash \/ Save \/ Reconcile \/ Verify \/ Commit
  \/ RestoreCache \/ RestoreManifest \/ SaveRestored
  \/ Rollback \/ VerifyAgain \/ Crash \/ Rearm
  \/ \E c \in Contents : EditCache(c)
  \/ \E m \in Manifests : EditManifest(m)

Spec == Init /\ [][Next]_vars

-----------------------------------------------------------------------------
TypeOK ==
  /\ install \in Installs /\ armed \in BOOLEAN
  /\ cache \in [content : Contents \cup {NoContent}, by : Writers]
  /\ (cache.content = NoContent) = (cache.by = "nobody")
  /\ manifest \in [content : Manifests, by : {"user", "rolled"}]
  /\ quarantine \in Contents \cup {NoContent}
  /\ backup \in [cache : Contents \cup {NoContent}, manifest : Manifests \cup {NoManifest}]
  /\ session \in [status : {"none", "applied_pending_verify", "auto_rolled_back",
                            "resolved_verified", "explicit_rollback"},
                  token : Tokens \cup {NoToken}, orig : Contents \cup {NoContent},
                  manifest : Manifests \cup {NoManifest}]
  /\ tokens \in [Tokens -> Contents \cup {NoContent}]
  /\ pc \in Steps \cup {"restored"}
  /\ job \in [what : Purposes, token : Tokens \cup {NoToken},
              orig : Contents \cup {NoContent}, manifest : Manifests \cup {NoManifest},
              quarantine : BOOLEAN, opened : BOOLEAN, fails : 0..MaxFails,
              raced : BOOLEAN]
  /\ pc \in {"rename", "posthash", "commit"} => job.what = "repair" /\ job.orig \in Contents
  /\ raced \in BOOLEAN /\ crashes \in 0..MaxCrashes
  /\ before \in Contents

(***************************************************************************)
(* "Verified resource copy ... rename-to-quarantine of prior cache bytes": *)
(* whatever an apply has made of the cache entry, and whatever its own     *)
(* restore or any number of rollbacks have made of that, the bytes the     *)
(* apply found are in the entry, in the backup or in the quarantine, also  *)
(* where a write failed or the process died with the entry gone; and bytes *)
(* that were put back are the bytes found.  Not covered: bytes that came   *)
(* into the entry after the apply, by an edit or a reconciliation cycle.   *)
(* A rollback overwrites those without a backup, and then they are lost.   *)
(* (Nor is an edit made during an apply, which may be overwritten too.)    *)
(***************************************************************************)
BytesKept ==
  ~raced =>
    /\ before \in {cache.content, backup.cache, quarantine}
    /\ cache.by \in {"undone", "rolled"} => cache.content = before

(***************************************************************************)
(* "Cache+manifest backups verified": as long as the cache holds a         *)
(* verified repair, the session and the backups agree on the pair that a   *)
(* rollback will put back, and a rollback is possible.                     *)
(***************************************************************************)
PairRollbackable ==
  cache.by = "verified" =>
    /\ session.status # "none"
    /\ backup = [cache |-> session.orig, manifest |-> session.manifest]

(***************************************************************************)
(* "Automatic rollback restored original cache+manifest bytes": a call     *)
(* that ends, other than by dying, leaves no unverified repair there.      *)
(***************************************************************************)
NothingPending ==
  Idle /\ crashes = 0 => cache.by # "pending"

(***************************************************************************)
(* "Restored original cache+manifest bytes": a session comes to say so     *)
(* only when both files are what they were before the apply, also where an *)
(* earlier rollback or restore got no further than the cache.              *)
(***************************************************************************)
PairRestored ==
  [][session' # session /\ ~job.raced
     /\ session'.status \in {"auto_rolled_back", "explicit_rollback"}
       => cache.content = session'.orig /\ manifest.content = session'.manifest]_vars

(***************************************************************************)
(* "RESOLVED_VERIFIED blocked" on recurrence: a session becomes            *)
(* resolved_verified only where the next reconciliation cycle will leave   *)
(* the repair alone and no mechanism is left.                              *)
(***************************************************************************)
ResolvedSurvivesCycle ==
  [][session' # session /\ session'.status = "resolved_verified" /\ ~job.raced
       => ~armed /\ Classify(Live) = NoMechanism /\ cache.content = Trusted]_vars
================================================================================
