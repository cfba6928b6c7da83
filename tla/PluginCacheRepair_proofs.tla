----------------------- MODULE PluginCacheRepair_proofs ------------------------
(***************************************************************************)
(* Proofs about the repair of the plugin cache and its manifest, under any *)
(* edits, failing writes and crashes: types; the bytes an apply finds are  *)
(* never lost; a verified repair can be rolled back as a pair; a session   *)
(* says restored, or resolved, only where it is; and with at most one      *)
(* failing write in a call no unverified repair is left behind.            *)
(***************************************************************************)
EXTENDS PluginCacheRepair, TLAPS

\* The forward steps of an apply, before and from the replacement on.
Preparing == {"backupCache", "backupManifest", "qunlink", "qcheck", "qmove", "qrewrite",
              "reopen", "check", "rename"}
Forward == {"token", "live"} \cup Preparing \cup {"posthash", "save", "commit"}

Unbacked == {"idle", "token", "live", "backupCache", "backupManifest"}

\* Bytes in the cache that a call wrote over others, or that are gone.
Taken == {"nobody", "pending", "verified"}

Pair(j) == [cache |-> j.orig, manifest |-> j.manifest]

\* What a call is for, at each of its steps.
Purpose ==
  /\ pc \in Forward => job.what = "repair"
  /\ pc \in {"recon", "verify"} => job.what \in {"repair", "verify"}
  /\ pc = "restoreCache" => job.what \in {"restore", "undo", "rollback"}
  /\ pc \in {"restoreManifest", "restored"} => job.what \in {"restore", "rollback"}

\* A call that runs knows what it works on, and so does a session.
Located ==
  /\ pc # "idle" => job.orig \in Contents
  /\ pc \notin {"idle", "token", "live"} => job.manifest \in Manifests
  /\ session.status # "none" => session.orig \in Contents /\ session.manifest \in Manifests

\* Past its backups an apply, or its restore, works with what they hold.
BackedUp ==
  /\ pc = "backupManifest" => backup.cache = job.orig
  /\ pc \notin Unbacked /\ job.what \in {"repair", "restore", "undo"} => backup = Pair(job)

\* Until it renames, an apply works on a cache without a repair.
Untouched ==
  /\ pc \in Preparing \ {"qrewrite"} => cache.by \notin Taken
  /\ pc = "qrewrite" => cache.by \in {"nobody", "user"}

RepairIsTrusted == cache.by \in {"pending", "verified"} => cache.content = Trusted

\* An apply verifies last, and what is put back is not verified.
VerifiedLast ==
  /\ pc \in {"posthash", "save", "commit", "restoreManifest", "restored"}
       => cache.by # "verified"
  /\ pc \notin Unbacked /\ job.what \in {"repair", "restore", "undo"} => cache.by # "verified"

\* The session of a verified repair names the pair that undoes it.
SessionNames ==
  cache.by = "verified" => session.status # "none" /\ backup = Pair(session)

\* Where the bytes found are, as long as no edit has raced with the call.
Found ==
  ~raced =>
    /\ cache.by \in Taken => before = backup.cache
    /\ cache.by \notin Taken => before = cache.content
    /\ pc \in Preparing => before = job.orig

\* What was put back is still backed up, and is what an apply on it backs up.
Again ==
  cache.by \in {"undone", "rolled"} =>
    /\ backup.cache = cache.content
    /\ pc = "backupCache" => job.orig = cache.content

\* The call that wrote unverified bytes is running, and no error can keep it
\* from verifying or undoing them.
Accounted ==
  crashes = 0 /\ cache.by = "pending" =>
    \/ pc \in {"posthash", "save", "recon", "verify", "commit"} /\ job.what = "repair"
    \/ pc = "restoreCache" /\ job.what = "restore"
    \/ pc = "restoreCache" /\ job.what = "undo" /\ job.fails >= MaxFails

\* What a rollback has put back when it comes to its session.
PutBack ==
  ~job.raced =>
    /\ pc \in {"restoreManifest", "restored"} => cache.content = job.orig
    /\ pc = "restored" => manifest.content = job.manifest

Sound == cache.content = Trusted /\ Classify(Live) = NoMechanism

Resolving ==
  /\ pc \in {"verify", "commit"} => ~armed
  /\ pc = "commit" /\ ~job.raced => Sound

-----------------------------------------------------------------------------
Job == [what : Purposes, token : Tokens \cup {NoToken}, orig : Contents \cup {NoContent},
        manifest : Manifests \cup {NoManifest}, quarantine : BOOLEAN, opened : BOOLEAN,
        fails : 0..MaxFails, raced : BOOLEAN]

Statuses == {"none", "applied_pending_verify", "auto_rolled_back", "resolved_verified",
             "explicit_rollback"}

Session == [status : Statuses, token : Tokens \cup {NoToken},
            orig : Contents \cup {NoContent}, manifest : Manifests \cup {NoManifest}]

\* The parts of TypeOK: the call, the two files, what is kept of them, the rest.
CallOK == pc \in Steps \cup {"restored"} /\ job \in Job

FilesOK ==
  /\ cache \in [content : Contents \cup {NoContent}, by : Writers]
  /\ (cache.content = NoContent) <=> (cache.by = "nobody")
  /\ manifest \in [content : Manifests, by : {"user", "rolled"}]

StoreOK ==
  /\ quarantine \in Contents \cup {NoContent}
  /\ backup \in [cache : Contents \cup {NoContent}, manifest : Manifests \cup {NoManifest}]
  /\ session \in Session

TallyOK ==
  /\ install \in Installs /\ armed \in BOOLEAN
  /\ tokens \in [Tokens -> Contents \cup {NoContent}]
  /\ raced \in BOOLEAN /\ crashes \in 0..MaxCrashes
  /\ before \in Contents

ControlInv == CallOK /\ Purpose /\ Located

LEMMA TypeParts ==
  /\ TypeOK => CallOK /\ FilesOK /\ StoreOK /\ TallyOK
  /\ ControlInv /\ FilesOK /\ StoreOK /\ TallyOK => TypeOK
<1>1. TypeOK => CallOK /\ FilesOK /\ StoreOK /\ TallyOK
  BY DEF TypeOK, CallOK, FilesOK, StoreOK, TallyOK, Job, Session, Statuses
<1>2. ControlInv => (pc \in {"rename", "posthash", "commit"}
                       => job.what = "repair" /\ job.orig \in Contents)
  BY DEF ControlInv, Purpose, Located, Forward, Preparing
<1>3. ControlInv /\ FilesOK /\ StoreOK /\ TallyOK => TypeOK
  BY <1>2 DEF ControlInv, TypeOK, CallOK, FilesOK, StoreOK, TallyOK, Job, Session, Statuses
<1> QED BY <1>1, <1>3

-----------------------------------------------------------------------------
(***************************************************************************)
(* How the control of a call moves.  What goes wrong ends the call, turns  *)
(* it into the best-effort restore, or into the automatic rollback; what   *)
(* the call works on stays the same.                                       *)
(***************************************************************************)
Stops == pc' = "idle" /\ job' = NoJob

Turns(what) ==
  /\ pc' = "restoreCache"
  /\ job' \in Job /\ job'.what = what
  /\ job'.orig = job.orig /\ job'.manifest = job.manifest /\ job'.raced = job.raced

Undoes   == job.what \in {"repair", "restore"} /\ Turns("undo")
Restores == job.what = "repair" /\ Turns("restore")

LEMMA NoJobType == NoJob \in Job
BY PluginRepairAssumption DEF PluginRepairAssumption, NoJob, Job, Purposes

LEMMA FailedType ==
  ASSUME CallOK, WriteFails
  PROVE  /\ Failed \in Job /\ Failed.fails = job.fails + 1 /\ Failed.what = job.what
         /\ Failed.orig = job.orig /\ Failed.manifest = job.manifest
         /\ Failed.raced = job.raced
BY PluginRepairAssumption DEF PluginRepairAssumption, CallOK, WriteFails, Failed, Job

LEMMA RestoreMoves ==
  ASSUME NEW j \in Job, NEW what \in Purposes, Restore(j, what)
  PROVE  /\ pc' = "restoreCache" /\ job' \in Job /\ job'.what = what
         /\ job'.orig = j.orig /\ job'.manifest = j.manifest /\ job'.raced = j.raced
         /\ job'.fails = j.fails
BY DEF Restore, Job

LEMMA ErrorMoves ==
  ASSUME CallOK, OnError
  PROVE  Stops \/ (Undoes /\ job'.fails = job.fails)
<1>1. CASE Restore(job, "undo") /\ job.what \in {"repair", "restore"}
  BY <1>1, RestoreMoves DEF CallOK, Undoes, Turns, Purposes
<1> QED BY <1>1 DEF OnError, Raise, End, Stops

LEMMA WriteErrorMoves ==
  ASSUME CallOK, OnWriteError
  PROVE  job.fails < MaxFails /\ (Stops \/ (Undoes /\ job'.fails = job.fails + 1))
<1>1. CASE Restore(Failed, "undo") /\ job.what \in {"repair", "restore"}
  BY <1>1, RestoreMoves, FailedType DEF OnWriteError, WriteFails, Undoes, Turns, Purposes
<1> QED BY <1>1, FailedType DEF OnWriteError, WriteFails, Raise, End, Stops

LEMMA VerifyFailsMoves ==
  ASSUME CallOK, VerifyFails \/ (WriteFails /\ VerifyFailed(Failed))
  PROVE  Stops \/ Restores
<1>1. CASE VerifyFailed(job)
  <2>1. CASE Restore(job, "restore") /\ job.what = "repair"
    BY <2>1, RestoreMoves DEF CallOK, Restores, Turns, Purposes
  <2> QED BY <1>1, <2>1 DEF VerifyFailed, End, Stops
<1>2. CASE WriteFails /\ VerifyFailed(Failed)
  <2>1. CASE Restore(Failed, "restore") /\ job.what = "repair"
    BY <1>2, <2>1, RestoreMoves, FailedType DEF Restores, Turns, Purposes
  <2> QED BY <1>2, <2>1, FailedType DEF VerifyFailed, End, Stops
<1> QED BY <1>1, <1>2 DEF VerifyFails

-----------------------------------------------------------------------------
(***************************************************************************)
(* The control of a call: an error keeps it, a step that goes on keeps it  *)
(* where the next step has the same purpose, and so does every action.     *)
(***************************************************************************)
LEMMA ControlError ==
  ASSUME ControlInv, pc \notin {"idle", "token", "live"}, Stops \/ Undoes \/ Restores,
         session' = session
  PROVE  ControlInv'
<1>1. CASE Stops
  BY <1>1, NoJobType DEF Stops, ControlInv, CallOK, Purpose, Located, Steps, Forward, Preparing
<1>2. CASE Undoes \/ Restores
  BY <1>2 DEF Undoes, Restores, Turns, ControlInv, CallOK, Purpose, Located, Steps, Forward,
              Preparing
<1> QED BY <1>1, <1>2

\* The steps of one purpose follow one another.
Follows ==
  \/ pc' = "idle"
  \/ pc \in Forward \ {"token", "live"} /\ pc' \in Preparing \cup {"posthash", "save", "recon"}
  \/ pc = "token" /\ pc' = "live"
  \/ pc = "recon" /\ pc' = "verify"
  \/ pc = "verify" /\ pc' = "commit" /\ job.what = "repair"
  \/ pc = "restoreCache" /\ pc' = "restoreManifest" /\ job.what # "undo"
  \/ pc = "restoreManifest" /\ pc' = "restored"

LEMMA ControlGoesOn ==
  ASSUME ControlInv, Follows, job' = job,
         session' = session \/ (session'.orig = job.orig /\ session'.manifest = job.manifest
                                 /\ pc \notin {"idle", "token", "live"})
  PROVE  ControlInv'
<1>1. CallOK'
  BY DEF ControlInv, CallOK, Follows, Steps, Preparing
<1>2. Purpose'
  BY DEF ControlInv, Purpose, Follows, Forward, Preparing
<1>3. Located'
  <2>1. pc \notin {"idle", "token", "live"} => job.manifest \in Manifests /\ job.orig \in Contents
    BY DEF ControlInv, Located
  <2>2. pc' # "idle" => job'.orig \in Contents
    BY DEF ControlInv, Located, Follows, Forward, Preparing
  <2>3. pc' \notin {"idle", "token", "live"} => job'.manifest \in Manifests
    BY DEF ControlInv, Located, Follows, Forward, Preparing
  <2>4. session'.status # "none" => session'.orig \in Contents /\ session'.manifest \in Manifests
    BY <2>1 DEF ControlInv, Located
  <2> QED BY <2>2, <2>3, <2>4 DEF Located
<1> QED BY <1>1, <1>2, <1>3 DEF ControlInv

LEMMA InitControl == Init => ControlInv
BY NoJobType DEF Init, ControlInv, CallOK, Purpose, Located, Steps, Forward, Preparing, NoSession

LEMMA ControlStep ==
  ASSUME TypeOK, ControlInv, [Next]_vars
  PROVE  ControlInv'
<1> USE DEF files, world
<1>0. CallOK /\ FilesOK /\ StoreOK /\ TallyOK
  BY TypeParts
<1>1. ASSUME NEW t \in Tokens, Preview(t) PROVE ControlInv'
  BY <1>1 DEF Preview, ControlInv, CallOK, Purpose, Located
<1>2. ASSUME NEW t \in Tokens, Apply(t) PROVE ControlInv'
  <2>1. tokens[t] \in Contents
    BY <1>0, <1>2 DEF Apply, TallyOK
  <2>2. job' \in Job /\ job'.what = "repair" /\ job'.orig \in Contents
    BY <1>2, <2>1, NoJobType DEF Apply, Job, Purposes
  <2> QED BY <1>2, <2>2 DEF Apply, ControlInv, CallOK, Purpose, Located, Steps, Forward, Preparing
<1>3. CASE CheckToken
  <2>1. CASE Stops
    BY <1>3, <2>1, NoJobType DEF CheckToken, Stops, ControlInv, CallOK, Purpose, Located, Steps,
                                 Forward, Preparing
  <2> QED BY <1>3, <2>1, ControlGoesOn DEF CheckToken, Then, End, Stops, Follows
<1>4. CASE OpenLive
  <2>1. CASE Stops
    BY <1>4, <2>1, NoJobType DEF OpenLive, Stops, ControlInv, CallOK, Purpose, Located, Steps,
                                 Forward, Preparing
  <2>2. CASE ~Stops
    <3>1. manifest.content \in Manifests
      BY <1>0 DEF FilesOK
    <3>2. Quarantines(Classify(Live)) \in BOOLEAN
      BY DEF Quarantines
    <3>3. pc' = "backupCache" /\ job' = [job EXCEPT !.manifest = manifest.content,
                     !.quarantine = Quarantines(Classify(Live)), !.opened = TRUE]
      BY <1>4, <2>2 DEF OpenLive, End, Stops
    <3>4. job' \in Job /\ job'.manifest \in Manifests /\ job'.orig = job.orig /\ job'.what = job.what
      BY <1>0, <3>1, <3>2, <3>3 DEF CallOK, Job
    <3> QED BY <1>4, <3>3, <3>4 DEF OpenLive, ControlInv, CallOK, Purpose, Located, Steps,
                                    Forward, Preparing
  <2> QED BY <2>1, <2>2
<1>5. CASE BackupCache
  BY <1>5, ControlError, ControlGoesOn
  DEF BackupCache, Then, End, Stops, Follows, Forward, Preparing
<1>6. CASE BackupManifest
  BY <1>6, ControlError, ControlGoesOn
  DEF BackupManifest, Then, End, Stops, Follows, Forward, Preparing
<1>7. CASE QuarantineUnlink
  BY <1>0, <1>7, ControlError, WriteErrorMoves, ControlGoesOn
  DEF QuarantineUnlink, Then, Follows, Forward, Preparing
<1>8. CASE QuarantineCheck
  BY <1>0, <1>8, ControlError, ErrorMoves, ControlGoesOn
  DEF QuarantineCheck, Then, Follows, Forward, Preparing
<1>9. CASE QuarantineMove
  <2>1. CASE OnWriteError
    BY <1>0, <1>9, <2>1, ControlError, WriteErrorMoves DEF QuarantineMove
  <2>2. CASE ~OnWriteError
    <3>1. pc = "qmove" /\ pc' = "qrewrite" /\ job' = [job EXCEPT !.opened = FALSE]
          /\ session' = session
      BY <1>9, <2>2 DEF QuarantineMove
    <3>2. job' \in Job /\ job'.what = job.what /\ job'.orig = job.orig /\ job'.manifest = job.manifest
      BY <1>0, <3>1 DEF CallOK, Job
    <3> QED BY <3>1, <3>2 DEF ControlInv, CallOK, Purpose, Located, Steps, Forward, Preparing
  <2> QED BY <2>1, <2>2
<1>10. CASE QuarantineRewrite
  BY <1>0, <1>10, ControlError, WriteErrorMoves, ControlGoesOn
  DEF QuarantineRewrite, Then, Follows, Forward, Preparing
<1>11. CASE Reopen
  <2>1. pc = "reopen" /\ pc' = "check" /\ job' = [job EXCEPT !.opened = TRUE] /\ session' = session
    BY <1>11 DEF Reopen
  <2>2. job' \in Job /\ job'.what = job.what /\ job'.orig = job.orig /\ job'.manifest = job.manifest
    BY <1>0, <2>1 DEF CallOK, Job
  <2> QED BY <2>1, <2>2 DEF ControlInv, CallOK, Purpose, Located, Steps, Forward, Preparing
<1>12. CASE Check
  BY <1>0, <1>12, ControlError, ErrorMoves, ControlGoesOn DEF Check, Then, Follows, Forward, Preparing
<1>13. CASE Rename
  BY <1>0, <1>13, ControlError, WriteErrorMoves, ControlGoesOn
  DEF Rename, Then, Follows, Forward, Preparing
<1>14. CASE PostHash
  BY <1>0, <1>14, ControlError, ErrorMoves, ControlGoesOn
  DEF PostHash, Then, Follows, Forward, Preparing
<1>15. CASE Save
  BY <1>0, <1>15, ControlError, WriteErrorMoves, ControlGoesOn
  DEF Save, SessionOf, Then, Follows, Forward, Preparing
<1>16. CASE Reconcile
  BY <1>0, <1>16, ControlError, VerifyFailsMoves, ControlGoesOn
  DEF Reconcile, Recurred, Then, Follows
<1>17. CASE Verify
  BY <1>0, <1>17, ControlError, VerifyFailsMoves, ControlGoesOn DEF Verify, Then, Follows
<1>18. CASE Commit
  BY <1>0, <1>18, ControlError, WriteErrorMoves, ControlGoesOn
  DEF Commit, SessionOf, Then, Follows
<1>19. CASE RestoreCache
  BY <1>0, <1>19, ControlError, ErrorMoves, WriteErrorMoves, ControlGoesOn
  DEF RestoreCache, AfterCache, Then, Follows
<1>20. CASE RestoreManifest
  BY <1>0, <1>20, ControlError, ErrorMoves, WriteErrorMoves, ControlGoesOn
  DEF RestoreManifest, Then, Follows
<1>21. CASE SaveRestored
  BY <1>0, <1>21, ControlError, WriteErrorMoves, ControlGoesOn
  DEF SaveRestored, SessionOf, Then, Follows
<1>22. CASE Rollback \/ VerifyAgain
  <2>1. session.orig \in Contents /\ session.manifest \in Manifests /\ session' = session
    BY <1>22 DEF Rollback, VerifyAgain, ControlInv, Located
  <2>2. PICK what \in {"rollback", "verify"} :
          /\ FromSession(what)
          /\ pc' = IF what = "rollback" THEN "restoreCache" ELSE "recon"
    BY <1>22 DEF Rollback, VerifyAgain
  <2>3. job' \in Job /\ job'.what = what /\ job'.orig = session.orig /\ job'.manifest = session.manifest
    BY <1>0, <2>2, NoJobType DEF FromSession, StoreOK, Session, Job, Purposes
  <2> QED BY <2>1, <2>2, <2>3 DEF ControlInv, CallOK, Purpose, Located, Steps, Forward, Preparing
<1>23. CASE Crash
  BY <1>23, NoJobType DEF Crash, End, ControlInv, CallOK, Purpose, Located, Steps, Forward, Preparing
<1>24. CASE Rearm
  BY <1>24 DEF Rearm, ControlInv, CallOK, Purpose, Located
<1>25. ASSUME \/ \E c \in Contents : EditCache(c)
              \/ \E m \in Manifests : EditManifest(m)
       PROVE  ControlInv'
  <2>1. /\ job' \in Job /\ job'.what = job.what /\ job'.orig = job.orig
        /\ job'.manifest = job.manifest
        /\ pc' = pc /\ session' = session
    BY <1>0, <1>25 DEF EditCache, EditManifest, CallOK, Job, Idle
  <2> QED BY <2>1 DEF ControlInv, CallOK, Purpose, Located
<1>26. CASE UNCHANGED vars
  BY <1>26 DEF vars, ControlInv, CallOK, Purpose, Located
<1> QED
  BY <1>1, <1>2, <1>3, <1>4, <1>5, <1>6, <1>7, <1>8, <1>9, <1>10, <1>11, <1>12, <1>13, <1>14,
     <1>15, <1>16, <1>17, <1>18, <1>19, <1>20, <1>21, <1>22, <1>23, <1>24, <1>25, <1>26 DEF Next

-----------------------------------------------------------------------------
\* Which actions change what.
LEMMA WhoWrites ==
  ASSUME [Next]_vars
  PROVE
    /\ \/ cache' = cache
       \/ QuarantineMove \/ QuarantineRewrite \/ Rename \/ Reconcile \/ Commit
       \/ RestoreCache \/ \E c \in Contents : EditCache(c)
    /\ manifest' = manifest \/ RestoreManifest \/ \E m \in Manifests : EditManifest(m)
    /\ quarantine' = quarantine \/ QuarantineUnlink \/ QuarantineMove
    /\ backup' = backup \/ BackupCache \/ BackupManifest
    /\ session' = session \/ Save \/ Commit \/ SaveRestored
    /\ tokens' = tokens \/ \E t \in Tokens : Preview(t)
    /\ crashes' = crashes \/ Crash
    /\ before' = before \/ OpenLive \/ Reconcile \/ RestoreCache \/ \E c \in Contents : EditCache(c)
    /\ raced' = raced \/ OpenLive \/ \E c \in Contents : EditCache(c)
    /\ armed' = armed \/ Rearm
    /\ install' = install
<1> USE DEF files, world
<1>1. CASE UNCHANGED vars
  BY <1>1 DEF vars
<1>2. ASSUME NEW t \in Tokens, Preview(t)
      PROVE  UNCHANGED << files, install, armed, crashes, before, raced >>
  BY <1>2 DEF Preview
<1>3. ASSUME NEW t \in Tokens, Apply(t)
      PROVE  UNCHANGED << files, world >>
  BY <1>3 DEF Apply
<1>4. CASE CheckToken \/ QuarantineCheck \/ Reopen \/ Check \/ PostHash \/ Verify
           \/ Rollback \/ VerifyAgain
  BY <1>4 DEF CheckToken, QuarantineCheck, Reopen, Check, PostHash, Verify, Rollback, VerifyAgain
<1>5. CASE OpenLive
  BY <1>5 DEF OpenLive
<1>6. CASE BackupCache \/ BackupManifest
  BY <1>6 DEF BackupCache, BackupManifest
<1>7. CASE QuarantineUnlink \/ QuarantineMove \/ QuarantineRewrite \/ Rename
  BY <1>7 DEF QuarantineUnlink, QuarantineMove, QuarantineRewrite, Rename
<1>8. CASE Save \/ Commit \/ SaveRestored
  BY <1>8 DEF Save, Commit, SaveRestored
<1>9. CASE Reconcile \/ RestoreCache \/ RestoreManifest
  BY <1>9 DEF Reconcile, RestoreCache, RestoreManifest
<1>10. CASE Crash \/ Rearm
  BY <1>10 DEF Crash, Rearm
<1>11. ASSUME NEW c \in Contents, EditCache(c)
       PROVE  UNCHANGED << install, armed, manifest, quarantine, backup, session, tokens, crashes >>
  BY <1>11 DEF EditCache
<1>12. ASSUME NEW m \in Manifests, EditManifest(m)
       PROVE  UNCHANGED << install, armed, cache, quarantine, backup, session, tokens, crashes,
                           before, raced >>
  BY <1>12 DEF EditManifest
<1> QED
  BY <1>1, <1>2, <1>3, <1>4, <1>5, <1>6, <1>7, <1>8, <1>9, <1>10, <1>11, <1>12 DEF Next

LEMMA FilesStep ==
  ASSUME TypeOK, ControlInv, [Next]_vars
  PROVE  FilesOK'
<1> USE PluginRepairAssumption DEF PluginRepairAssumption, Writers
<1>0. CallOK /\ FilesOK /\ StoreOK /\ TallyOK
  BY TypeParts
<1>1. cache' \in [content : Contents \cup {NoContent}, by : Writers]
      /\ ((cache'.content = NoContent) <=> (cache'.by = "nobody"))
  <2>1. CASE cache' = cache
    BY <1>0, <2>1 DEF FilesOK
  <2>2. CASE QuarantineMove
    BY <1>0, <2>2 DEF QuarantineMove, FilesOK
  <2>3. CASE QuarantineRewrite
    BY <1>0, <2>3 DEF QuarantineRewrite, FilesOK, ControlInv, Located
  <2>4. CASE Rename
    BY <1>0, <2>4 DEF Rename, FilesOK
  <2>5. CASE Reconcile
    BY <1>0, <2>5 DEF Reconcile, FilesOK, TallyOK
  <2>6. CASE Commit
    BY <1>0, <2>6 DEF Commit, FilesOK
  <2>7. CASE RestoreCache
    BY <1>0, <2>7 DEF RestoreCache, Restored, FilesOK, ControlInv, Located
  <2>8. ASSUME NEW c \in Contents, EditCache(c) 
        PROVE  cache' = [content |-> c, by |-> "user"]
    BY <2>8 DEF EditCache
  <2> QED BY <2>1, <2>2, <2>3, <2>4, <2>5, <2>6, <2>7, <2>8, WhoWrites
<1>2. manifest' \in [content : Manifests, by : {"user", "rolled"}]
  <2>1. CASE manifest' = manifest
    BY <1>0, <2>1 DEF FilesOK
  <2>2. CASE RestoreManifest
    BY <1>0, <2>2 DEF RestoreManifest, FilesOK, ControlInv, Located
  <2>3. ASSUME NEW m \in Manifests, EditManifest(m) 
        PROVE  manifest' = [content |-> m, by |-> "user"]
    BY <2>3 DEF EditManifest
  <2> QED BY <2>1, <2>2, <2>3, WhoWrites
<1> QED BY <1>1, <1>2 DEF FilesOK

LEMMA StoreStep ==
  ASSUME TypeOK, ControlInv, [Next]_vars
  PROVE  StoreOK'
<1>0. CallOK /\ FilesOK /\ StoreOK /\ TallyOK
  BY TypeParts
<1>1. quarantine' \in Contents \cup {NoContent}
  BY <1>0, WhoWrites DEF QuarantineUnlink, QuarantineMove, FilesOK, StoreOK
<1>2. backup' \in [cache : Contents \cup {NoContent}, manifest : Manifests \cup {NoManifest}]
  BY <1>0, WhoWrites DEF BackupCache, BackedCache, BackupManifest, BackedManifest, CallOK, Job, StoreOK
<1>3. session' \in Session
  <2>1. \A s \in Statuses : SessionOf(s) \in Session
    BY <1>0 DEF SessionOf, Session, CallOK, Job
  <2> QED BY <1>0, <2>1, WhoWrites DEF Save, Commit, SaveRestored, Statuses, StoreOK
<1> QED BY <1>1, <1>2, <1>3 DEF StoreOK

LEMMA TallyStep ==
  ASSUME TypeOK, ControlInv, [Next]_vars
  PROVE  TallyOK'
<1> USE PluginRepairAssumption DEF PluginRepairAssumption
<1>0. CallOK /\ FilesOK /\ StoreOK /\ TallyOK
  BY TypeParts
<1>1. install' \in Installs /\ armed' \in BOOLEAN
  BY <1>0, WhoWrites DEF Rearm, TallyOK
<1>2. tokens' \in [Tokens -> Contents \cup {NoContent}]
  BY <1>0, WhoWrites DEF Preview, Bound, FilesOK, TallyOK
<1>3. raced' \in BOOLEAN
  <2>1. OpenLive => raced' = raced \/ raced' = FALSE
    BY DEF OpenLive
  <2>2. \A c \in Contents : EditCache(c) => raced' = ~Idle
    BY DEF EditCache
  <2> QED BY <1>0, <2>1, <2>2, WhoWrites DEF TallyOK
<1>5. crashes' \in 0..MaxCrashes
  BY <1>0, WhoWrites DEF Crash, TallyOK
<1>4. before' \in Contents
  <2>1. OpenLive => before' = before \/ before' \in Contents
    BY <1>0 DEF OpenLive, Present, FilesOK
  <2>2. Reconcile => before' = before \/ before' \in Contents
    BY <1>0 DEF Reconcile, TallyOK
  <2>3. RestoreCache => before' = before \/ before' \in Contents
    BY DEF RestoreCache, ControlInv, Located
  <2>4. \A c \in Contents : EditCache(c) => before' = c
    BY DEF EditCache
  <2> QED BY <1>0, <2>1, <2>2, <2>3, <2>4, WhoWrites DEF TallyOK
<1> QED BY <1>1, <1>2, <1>3, <1>4, <1>5 DEF TallyOK

LEMMA TypeStep ==
  ASSUME TypeOK, ControlInv, [Next]_vars
  PROVE  TypeOK' /\ ControlInv'
<1>1. (ControlInv /\ FilesOK /\ StoreOK /\ TallyOK)' => TypeOK'
  BY TypeParts, PTL
<1> QED BY <1>1, ControlStep, FilesStep, StoreStep, TallyStep

LEMMA InitType == Init => TypeOK /\ ControlInv
<1> USE PluginRepairAssumption DEF PluginRepairAssumption
<1> SUFFICES ASSUME Init PROVE TypeOK /\ ControlInv
  OBVIOUS
<1>1. ControlInv
  BY InitControl
<1>2. FilesOK
  BY DEF Init, FilesOK, Writers
<1>3. StoreOK
  BY DEF Init, StoreOK, NoSession, Session, Statuses
<1>4. TallyOK
  <2>1. before \in Contents /\ tokens \in [Tokens -> Contents \cup {NoContent}]
    BY DEF Init
  <2>2. crashes \in 0..MaxCrashes
    BY DEF Init
  <2>3. raced = FALSE
    BY ZenonT(30) DEF Init
  <2> QED BY <2>1, <2>2, <2>3, ZenonT(30) DEF Init, TallyOK
<1> QED BY <1>1, <1>2, <1>3, <1>4, TypeParts

-----------------------------------------------------------------------------
(***************************************************************************)
(* How the control moves in any step: the call stands still, ends, begins, *)
(* fails, or goes on with what it works on.                                *)
(***************************************************************************)
Keeps == job'.what = job.what /\ job'.orig = job.orig /\ job'.manifest = job.manifest
StandsStill == pc' = pc /\ Keeps /\ (job'.raced = job.raced \/ job'.raced = ~Idle)
Ends == pc' = "idle"
Begins ==
  /\ pc = "idle"
  /\ \/ pc' = "token" /\ job'.what = "repair"
     \/ pc' = "restoreCache" /\ job'.what = "rollback"
     \/ pc' = "recon" /\ job'.what = "verify"
Errs  == pc \notin Unbacked \cup {"recon", "verify"} /\ Undoes
Fails == pc \in {"recon", "verify"} /\ Restores

GoesOn ==
  /\ Keeps /\ job'.raced = job.raced
  /\ \/ pc = "backupManifest" /\ pc' \in {"qunlink", "check"}
     \/ << pc, pc' >> \in { << "token", "live" >>, << "backupCache", "backupManifest" >>,
                            << "qunlink", "qcheck" >>, << "qcheck", "qmove" >>,
                            << "qmove", "qrewrite" >>, << "qrewrite", "reopen" >>,
                            << "reopen", "check" >>, << "check", "rename" >>,
                            << "rename", "posthash" >>, << "posthash", "save" >>,
                            << "save", "recon" >>, << "recon", "verify" >>,
                            << "verify", "commit" >>, << "restoreManifest", "restored" >> }
     \/ pc = "restoreCache" /\ pc' = "restoreManifest" /\ job.what # "undo"

LEMMA Moves ==
  ASSUME TypeOK, [Next]_vars
  PROVE  StandsStill \/ Ends \/ Begins \/ Errs \/ Fails \/ GoesOn \/ OpenLive
<1> USE DEF files, world, Unbacked
<1>0. CallOK
  BY TypeParts
<1>1. CASE UNCHANGED vars
  BY <1>1 DEF vars, StandsStill, Keeps
<1>2. ASSUME NEW t \in Tokens, Preview(t) \/ Apply(t)
      PROVE  StandsStill \/ Begins
  <2>1. Apply(t) => job'.what = "repair"
    BY DEF Apply, NoJob
  <2> QED BY <1>2, <2>1 DEF Preview, Apply, StandsStill, Keeps, Begins, Idle
<1>3. CASE CheckToken \/ BackupCache \/ BackupManifest
  BY <1>3 DEF CheckToken, BackupCache, BackupManifest, Then, End, Ends, GoesOn, Keeps
<1>4. CASE QuarantineUnlink \/ QuarantineCheck \/ QuarantineRewrite
  BY <1>0, <1>4, ErrorMoves, WriteErrorMoves
  DEF QuarantineUnlink, QuarantineCheck, QuarantineRewrite, Then, Stops, Ends, Errs, GoesOn, Keeps
<1>5. CASE QuarantineMove \/ Reopen
  <2>1. /\ [job EXCEPT !.opened = FALSE].what = job.what
        /\ [job EXCEPT !.opened = FALSE].orig = job.orig
        /\ [job EXCEPT !.opened = FALSE].manifest = job.manifest
        /\ [job EXCEPT !.opened = FALSE].raced = job.raced
        /\ [job EXCEPT !.opened = TRUE].what = job.what
        /\ [job EXCEPT !.opened = TRUE].orig = job.orig
        /\ [job EXCEPT !.opened = TRUE].manifest = job.manifest
        /\ [job EXCEPT !.opened = TRUE].raced = job.raced
    BY <1>0 DEF CallOK, Job
  <2> QED BY <1>0, <1>5, <2>1, WriteErrorMoves
          DEF QuarantineMove, Reopen, Stops, Ends, Errs, GoesOn, Keeps
<1>6. CASE Check \/ Rename \/ PostHash \/ Save
  BY <1>0, <1>6, ErrorMoves, WriteErrorMoves
  DEF Check, Rename, PostHash, Save, Then, Stops, Ends, Errs, GoesOn, Keeps
<1>7. CASE Reconcile \/ Verify
  BY <1>0, <1>7, VerifyFailsMoves
  DEF Reconcile, Recurred, Verify, Then, Stops, Ends, Fails, GoesOn, Keeps
<1>8. CASE Commit \/ SaveRestored
  BY <1>0, <1>8, WriteErrorMoves DEF Commit, SaveRestored, Then, Stops, Ends, Errs
<1>9. CASE RestoreCache \/ RestoreManifest
  BY <1>0, <1>9, ErrorMoves, WriteErrorMoves
  DEF RestoreCache, AfterCache, RestoreManifest, Then, Stops, Ends, Errs, GoesOn, Keeps
<1>10. CASE Rollback \/ VerifyAgain
  <2>1. \A what \in Purposes : FromSession(what) => job'.what = what
    BY DEF FromSession, NoJob
  <2> QED BY <1>10, <2>1 DEF Rollback, VerifyAgain, Begins, Idle, Purposes
<1>11. CASE Crash \/ Rearm
  BY <1>11 DEF Crash, End, Rearm, Ends, StandsStill, Keeps
<1>12. ASSUME \/ \E c \in Contents : EditCache(c)
              \/ \E m \in Manifests : EditManifest(m)
       PROVE  StandsStill
  BY <1>0, <1>12 DEF EditCache, EditManifest, CallOK, Job, StandsStill, Keeps
<1> QED
  BY <1>1, <1>2, <1>3, <1>4, <1>5, <1>6, <1>7, <1>8, <1>9, <1>10, <1>11, <1>12 DEF Next

\* A call that neither stands still nor ends takes the action of its step.
AtStep ==
  /\ pc = "live" => OpenLive
  /\ pc = "backupCache" => BackupCache
  /\ pc = "backupManifest" => BackupManifest
  /\ pc = "qmove" => QuarantineMove
  /\ pc = "qrewrite" => QuarantineRewrite
  /\ pc = "rename" => Rename
  /\ pc = "posthash" => PostHash
  /\ pc = "save" => Save
  /\ pc = "recon" => Reconcile
  /\ pc = "verify" => Verify
  /\ pc = "commit" => Commit
  /\ pc = "restoreCache" => RestoreCache
  /\ pc = "restoreManifest" => RestoreManifest
  /\ pc = "restored" => SaveRestored

LEMMA StepOf ==
  ASSUME TypeOK, [Next]_vars
  PROVE  StandsStill \/ Ends \/ Begins \/ AtStep
<1>1. CASE UNCHANGED vars
  BY <1>1 DEF vars, StandsStill, Keeps
<1>2. ASSUME NEW t \in Tokens, Preview(t) \/ Apply(t)
      PROVE  AtStep
  BY <1>2 DEF Preview, Apply, Idle, AtStep
<1>3. CASE CheckToken \/ QuarantineUnlink \/ QuarantineCheck \/ Reopen \/ Check
  BY <1>3 DEF CheckToken, QuarantineUnlink, QuarantineCheck, Reopen, Check, AtStep
<1>4. CASE \/ OpenLive \/ BackupCache \/ BackupManifest \/ QuarantineMove
           \/ QuarantineRewrite \/ Rename \/ PostHash \/ Save
  BY <1>4 DEF OpenLive, BackupCache, BackupManifest, QuarantineMove, QuarantineRewrite, Rename,
              PostHash, Save, AtStep
<1>5. CASE Reconcile \/ Verify \/ Commit \/ RestoreCache \/ RestoreManifest \/ SaveRestored
  BY <1>5 DEF Reconcile, Verify, Commit, RestoreCache, RestoreManifest, SaveRestored, AtStep
<1>6. CASE Rollback \/ VerifyAgain \/ Crash \/ Rearm
  BY <1>6 DEF Rollback, VerifyAgain, Idle, Crash, End, Ends, Rearm, AtStep
<1>7. ASSUME \/ \E c \in Contents : EditCache(c)
             \/ \E m \in Manifests : EditManifest(m)
      PROVE  StandsStill
  BY <1>7, TypeParts DEF EditCache, EditManifest, CallOK, Job, StandsStill, Keeps
<1> QED BY <1>1, <1>2, <1>3, <1>4, <1>5, <1>6, <1>7 DEF Next

-----------------------------------------------------------------------------
\* The invariants of the two files, one after the other.
LEMMA BackedUpStep ==
  ASSUME TypeOK, ControlInv, BackedUp, [Next]_vars
  PROVE  BackedUp'
<1> USE DEF Unbacked
<1>1. CASE BackupCache
  <2>1. backup' = BackedCache => backup'.cache = job.orig
    BY TypeParts DEF BackedCache, StoreOK
  <2> QED BY <1>1, <2>1 DEF BackupCache, Then, End, BackedUp
<1>2. CASE BackupManifest
  <2>1. CASE backup' = BackedManifest /\ job' = job
    <3>1. backup' = [cache |-> job.orig, manifest |-> job.manifest]
      BY <1>2, <2>1, TypeParts DEF BackupManifest, BackedManifest, StoreOK, BackedUp
    <3> QED BY <1>2, <2>1, <3>1 DEF BackupManifest, Then, BackedUp, Pair
  <2> QED BY <1>2, <2>1 DEF BackupManifest, Then, End, BackedUp
<1>3. CASE backup' = backup /\ ~BackupCache /\ ~BackupManifest
  <2>1. CASE StandsStill \/ Ends \/ Begins
    BY <1>3, <2>1 DEF StandsStill, Keeps, Ends, Begins, BackedUp, Pair
  <2>2. CASE Errs \/ Fails
    BY <1>3, <2>2 DEF Errs, Fails, Undoes, Restores, Turns, BackedUp, Pair
  <2>3. CASE GoesOn /\ ~StandsStill /\ ~Ends /\ ~Begins
    <3>1. pc \notin {"backupCache", "backupManifest"}
      BY <1>3, <2>3, StepOf DEF AtStep
    <3> QED BY <1>3, <2>3, <3>1 DEF GoesOn, Keeps, BackedUp, Pair
  <2>4. CASE OpenLive
    BY <1>3, <2>4 DEF OpenLive, End, BackedUp
  <2> QED BY <2>1, <2>2, <2>3, <2>4, Moves
<1> QED BY <1>1, <1>2, <1>3, WhoWrites

\* What may be planned is there, and is not a repair.
LEMMA PlannedIsUntouched ==
  ASSUME FilesOK, RepairIsTrusted, Present, Plannable(Live)
  PROVE  cache.by \notin Taken
<1>1. cache.content # Trusted
  BY DEF Plannable, Live
<1> QED BY <1>1 DEF FilesOK, RepairIsTrusted, Present, Taken

LEMMA OpenLiveMoves ==
  ASSUME CallOK, OpenLive
  PROVE  \/ Ends /\ UNCHANGED << files, before, raced >>
         \/ /\ pc = "live" /\ pc' = "backupCache" /\ Present /\ Plannable(Live)
            /\ cache.content = job.orig /\ job'.orig = job.orig /\ job'.what = job.what
            /\ before' = cache.content /\ raced' = FALSE /\ UNCHANGED files
<1>1. CASE End
  BY <1>1, ZenonT(30) DEF OpenLive, End, Ends, files
<1>2. CASE ~End
  <2>1. /\ pc = "live" /\ pc' = "backupCache" /\ Present /\ Plannable(Live)
        /\ cache.content = job.orig
        /\ job' = [job EXCEPT !.manifest = manifest.content,
                              !.quarantine = Quarantines(Classify(Live)), !.opened = TRUE]
        /\ before' = cache.content /\ raced' = FALSE /\ UNCHANGED files
    BY <1>2, ZenonT(30) DEF OpenLive
  <2>2. job'.orig = job.orig /\ job'.what = job.what
    BY <2>1 DEF CallOK, Job
  <2> QED BY <2>1, <2>2
<1> QED BY <1>1, <1>2

LEMMA RepairIsTrustedStep ==
  ASSUME RepairIsTrusted, FilesOK, [Next]_vars
  PROVE  RepairIsTrusted'
<1>1. QuarantineMove \/ QuarantineRewrite \/ Rename => RepairIsTrusted'
  BY DEF QuarantineMove, QuarantineRewrite, Rename, RepairIsTrusted
<1>2. Reconcile \/ RestoreCache => RepairIsTrusted'
  BY DEF Reconcile, RestoreCache, Restored, RepairIsTrusted
<1>3. Commit => RepairIsTrusted'
  BY DEF Commit, FilesOK, RepairIsTrusted
<1>4. \A c \in Contents : EditCache(c) => RepairIsTrusted'
  BY DEF EditCache, RepairIsTrusted
<1> QED BY <1>1, <1>2, <1>3, <1>4, WhoWrites DEF RepairIsTrusted

LEMMA UntouchedStep ==
  ASSUME TypeOK, ControlInv, Untouched, RepairIsTrusted, [Next]_vars
  PROVE  Untouched'
<1> USE DEF Preparing, Taken
<1>0. CallOK /\ FilesOK
  BY TypeParts
<1>1. CASE OpenLive
  BY <1>0, <1>1, OpenLiveMoves, PlannedIsUntouched DEF Ends, files, Untouched
<1>2. CASE Ends \/ Begins \/ Errs \/ Fails
  BY <1>2 DEF Ends, Begins, Errs, Fails, Undoes, Restores, Turns, Untouched
<1>3. CASE cache' = cache /\ (StandsStill \/ GoesOn) /\ pc \notin {"qmove", "qrewrite"}
  BY <1>3 DEF StandsStill, GoesOn, Untouched
<1>4. CASE pc \in {"qmove", "qrewrite"} /\ cache' = cache /\ ~Ends /\ ~Begins
  <2>1. CASE StandsStill
    BY <1>4, <2>1 DEF StandsStill, Untouched
  <2>2. CASE QuarantineMove \/ QuarantineRewrite
    BY <1>0, <1>4, <2>2, WriteErrorMoves
    DEF QuarantineMove, QuarantineRewrite, Ends, Stops, Undoes, Turns, Untouched
  <2> QED BY <1>4, <2>1, <2>2, StepOf DEF AtStep
<1>5. CASE QuarantineMove \/ QuarantineRewrite \/ Rename
  BY <1>0, <1>5, WriteErrorMoves
  DEF QuarantineMove, QuarantineRewrite, Rename, Then, Stops, Undoes, Turns, Untouched
<1>6. CASE Reconcile \/ Commit \/ RestoreCache
  BY <1>6, Moves DEF Reconcile, Commit, RestoreCache, StandsStill, Ends, Begins, Errs, Fails,
                     Undoes, Restores, Turns, GoesOn, OpenLive, Untouched
<1>7. ASSUME NEW c \in Contents, EditCache(c)
      PROVE  Untouched'
  BY <1>7 DEF EditCache, Untouched
<1> QED BY <1>1, <1>2, <1>3, <1>4, <1>5, <1>6, <1>7, Moves, WhoWrites

LEMMA VerifiedLastStep ==
  ASSUME TypeOK, ControlInv, Untouched, VerifiedLast, [Next]_vars
  PROVE  VerifiedLast'
<1> USE DEF Unbacked
<1>0. CallOK
  BY TypeParts
<1>1. CASE cache' = cache
  <2>1. CASE StandsStill \/ Ends \/ Begins
    BY <1>1, <2>1 DEF StandsStill, Keeps, Ends, Begins, VerifiedLast
  <2>2. CASE Errs \/ Fails
    BY <1>1, <2>2 DEF Errs, Fails, Undoes, Restores, Turns, VerifiedLast
  <2>3. CASE OpenLive
    BY <1>1, <2>3 DEF OpenLive, End, VerifiedLast
  <2>4. CASE GoesOn /\ pc \notin {"backupManifest", "restoreCache"}
    BY <1>1, <2>4, ControlStep
    DEF GoesOn, Keeps, ControlInv, Purpose, Forward, Preparing, VerifiedLast
  <2>5. CASE GoesOn /\ pc = "backupManifest"
    BY <1>1, <2>5 DEF GoesOn, Untouched, Preparing, Taken, VerifiedLast
  <2>6. CASE pc = "restoreCache" /\ ~StandsStill /\ ~Ends /\ ~Begins /\ ~Errs
    <3>1. RestoreCache
      BY <2>6, StepOf DEF AtStep
    <3>2. cache' = Restored
      BY <1>0, <2>6, <3>1, ErrorMoves, WriteErrorMoves DEF RestoreCache, Stops, Ends, Errs
    <3> QED BY <3>2 DEF Restored, VerifiedLast
  <2> QED BY <2>1, <2>2, <2>3, <2>4, <2>5, <2>6, Moves
<1>2. CASE Commit /\ cache' # cache
  BY <1>2 DEF Commit, Then, VerifiedLast
<1>3. CASE cache' # cache /\ ~Commit
  <2>1. cache'.by # "verified"
    BY <1>3, WhoWrites
    DEF QuarantineMove, QuarantineRewrite, Rename, Reconcile, RestoreCache, Restored, EditCache
  <2> QED BY <2>1 DEF VerifiedLast
<1> QED BY <1>1, <1>2, <1>3

LEMMA SessionNamesStep ==
  ASSUME TypeOK, ControlInv, BackedUp, Untouched, VerifiedLast, SessionNames, [Next]_vars
  PROVE  SessionNames'
<1>1. CASE cache' = cache /\ cache.by = "verified"
  <2>1. backup' = backup
    BY <1>1, WhoWrites DEF BackupCache, BackupManifest, Untouched, Preparing, Taken
  <2>2. session' = session
    BY <1>1, WhoWrites DEF Save, Commit, SaveRestored, VerifiedLast
  <2> QED BY <1>1, <2>1, <2>2 DEF SessionNames, Pair
<1>2. CASE Commit /\ cache' # cache
  <2>1. session' = SessionOf("resolved_verified") /\ backup' = backup
    BY <1>2 DEF Commit
  <2>2. backup = Pair(job)
    BY <1>2 DEF Commit, ControlInv, Purpose, Forward, BackedUp, Unbacked
  <2> QED BY <2>1, <2>2 DEF SessionOf, SessionNames, Pair
<1>3. CASE cache' # cache /\ ~Commit
  <2>1. cache'.by # "verified"
    BY <1>3, WhoWrites
    DEF QuarantineMove, QuarantineRewrite, Rename, Reconcile, RestoreCache, Restored, EditCache
  <2> QED BY <2>1 DEF SessionNames
<1> QED BY <1>1, <1>2, <1>3 DEF SessionNames

LEMMA AgainStep ==
  ASSUME TypeOK, ControlInv, BackedUp, Again, [Next]_vars
  PROVE  Again'
<1>0. CallOK /\ FilesOK /\ StoreOK
  BY TypeParts
<1>1. CASE OpenLive
  BY <1>0, <1>1, OpenLiveMoves DEF Ends, files, Again
<1>2. CASE BackupCache
  <2>1. cache' = cache /\ pc = "backupCache" /\ backup'.cache \in {backup.cache, job.orig}
    BY <1>0, <1>2 DEF BackupCache, BackedCache, StoreOK
  <2>2. pc' # "backupCache"
    BY <1>2 DEF BackupCache, Then, End
  <2> QED BY <2>1, <2>2 DEF Again
<1>3. CASE BackupManifest
  <2>1. cache' = cache /\ backup'.cache = backup.cache
    BY <1>0, <1>3 DEF BackupManifest, BackedManifest, StoreOK
  <2>2. pc' # "backupCache"
    BY <1>3 DEF BackupManifest, Then, End
  <2> QED BY <2>1, <2>2 DEF Again
<1>4. CASE cache' = cache /\ backup' = backup /\ ~OpenLive
  <2>1. pc' = "backupCache" => pc = "backupCache" /\ job'.orig = job.orig
    BY <1>4, Moves
    DEF StandsStill, Keeps, Ends, Begins, Errs, Fails, Undoes, Restores, Turns, GoesOn
  <2> QED BY <1>4, <2>1 DEF Again
<1>5. CASE cache' # cache /\ RestoreCache
  <2>1. backup.cache = job.orig /\ backup' = backup /\ cache' = Restored /\ pc' # "backupCache"
    BY <1>5 DEF RestoreCache, Then, AfterCache
  <2> QED BY <2>1 DEF Restored, Again
<1>6. CASE cache' # cache /\ QuarantineRewrite
  <2>1. backup.cache = job.orig
    BY <1>6 DEF QuarantineRewrite, BackedUp, Unbacked, Pair, ControlInv, Purpose, Forward, Preparing
  <2>2. backup' = backup /\ cache'.content = job.orig /\ pc' # "backupCache"
    BY <1>6 DEF QuarantineRewrite, Then
  <2> QED BY <2>1, <2>2 DEF Again
<1>7. CASE cache' # cache /\ ~RestoreCache /\ ~QuarantineRewrite
  <2>1. cache'.by \notin {"undone", "rolled"} \/ Commit
    BY <1>7, WhoWrites DEF QuarantineMove, Rename, Reconcile, EditCache
  <2>2. CASE Commit
    BY <1>0, <1>7, <2>2 DEF Commit, FilesOK, Again
  <2> QED BY <2>1, <2>2 DEF Again
<1> QED BY <1>1, <1>2, <1>3, <1>4, <1>5, <1>6, <1>7, WhoWrites

LEMMA FoundStep ==
  ASSUME TypeOK, ControlInv, BackedUp, Untouched, RepairIsTrusted, Again, Found, [Next]_vars
  PROVE  Found'
<1> USE DEF Preparing, Taken
<1>0. CallOK /\ FilesOK
  BY TypeParts
<1>1. CASE OpenLive
  BY <1>0, <1>1, OpenLiveMoves, PlannedIsUntouched DEF Ends, files, Found
<1>2. ASSUME NEW c \in Contents, EditCache(c)
      PROVE  Found'
  <2>1. cache' = [content |-> c, by |-> "user"] /\ before' = c
    BY <1>2 DEF EditCache
  <2>2. ~raced' => pc' = "idle"
    BY <1>2 DEF EditCache, Idle
  <2> QED BY <2>1, <2>2 DEF Found
<1>3. CASE /\ raced' = raced /\ before' = before /\ cache' = cache
           /\ backup' = backup \/ cache.by \notin Taken
           /\ ~OpenLive
  <2>1. ~raced /\ pc' \in Preparing => before = job'.orig
    <3>1. CASE StandsStill \/ GoesOn
      BY <1>3, <3>1 DEF StandsStill, GoesOn, Keeps, Found
    <3>2. CASE Ends \/ Begins \/ Errs \/ Fails
      BY <3>2 DEF Ends, Begins, Errs, Fails, Undoes, Restores, Turns
    <3> QED BY <1>3, <3>1, <3>2, Moves
  <2> QED BY <1>3, <2>1 DEF Found
<1>4. CASE BackupCache \/ BackupManifest
  <2>1. cache.by \notin Taken /\ cache' = cache /\ raced' = raced /\ before' = before /\ ~OpenLive
    BY <1>4 DEF BackupCache, BackupManifest, OpenLive, world, Untouched
  <2> QED BY <1>3, <2>1
<1>5. CASE (QuarantineMove \/ QuarantineRewrite \/ Rename) /\ cache' # cache
  <2>1. ~raced => before = job.orig
    BY <1>5 DEF QuarantineMove, QuarantineRewrite, Rename, Found
  <2>2. backup.cache = job.orig
    BY <1>5 DEF QuarantineMove, QuarantineRewrite, Rename, BackedUp, Unbacked, Pair, ControlInv,
                Purpose, Forward
  <2>3. UNCHANGED << backup, before, raced >>
    BY <1>5 DEF QuarantineMove, QuarantineRewrite, Rename, world
  <2>4. pc' \in Preparing => job'.orig = job.orig
    BY <1>0, <1>5 DEF QuarantineMove, QuarantineRewrite, Rename, Then, CallOK, Job
  <2>5. cache'.by \notin Taken => cache'.content = job.orig
    BY <1>5 DEF QuarantineMove, QuarantineRewrite, Rename
  <2> QED BY <2>1, <2>2, <2>3, <2>4, <2>5 DEF Found
<1>6. CASE (Reconcile \/ RestoreCache) /\ (cache' # cache \/ before' # before)
  <2>1. cache'.by \notin Taken /\ (~raced' => before' = cache'.content)
    <3>1. CASE Reconcile
      BY <1>6, <3>1 DEF Reconcile
    <3>2. CASE RestoreCache
      <4>1. /\ Present /\ backup.cache = job.orig /\ cache' = Restored
            /\ before' = IF cache.by \in {"user", "recon"} THEN job.orig ELSE before
            /\ raced' = raced /\ backup' = backup
        BY <1>6, <3>2 DEF RestoreCache
      <4>2. cache'.content = job.orig /\ cache'.by \in {"undone", "rolled"}
        BY <4>1 DEF Restored
      <4>3. ~raced => before' = job.orig
        BY <1>0, <4>1 DEF Found, Again, FilesOK, Present, Writers
      <4> QED BY <4>1, <4>2, <4>3
    <3> QED BY <1>6, <3>1, <3>2
  <2>2. pc' \notin Preparing
    BY <1>6, Moves DEF Reconcile, RestoreCache, Recurred, AfterCache, Then, StandsStill, Ends,
                       Begins, Errs, Fails, Undoes, Restores, Turns, GoesOn, OpenLive
  <2> QED BY <2>1, <2>2 DEF Found
<1>7. CASE Commit /\ cache' # cache
  BY <1>0, <1>7 DEF Commit, Then, world, FilesOK, Found
<1> QED BY <1>1, <1>2, <1>3, <1>4, <1>5, <1>6, <1>7, WhoWrites

LEMMA PutBackStep ==
  ASSUME TypeOK, ControlInv, PutBack, [Next]_vars
  PROVE  PutBack'
<1>1. ASSUME \/ \E c \in Contents : EditCache(c)
             \/ \E m \in Manifests : EditManifest(m)
      PROVE  PutBack'
  <2>1. pc' = pc /\ job'.raced = ~Idle
    BY <1>1, TypeParts DEF EditCache, EditManifest, CallOK, Job
  <2> QED BY <2>1 DEF Idle, PutBack
<1>2. CASE StandsStill /\ cache' = cache /\ manifest' = manifest
  BY <1>2 DEF StandsStill, Keeps, Idle, PutBack
<1>3. CASE Ends \/ Begins \/ Errs \/ Fails \/ OpenLive
  BY <1>3 DEF Ends, Begins, Errs, Fails, Undoes, Restores, Turns, OpenLive, End, PutBack
<1>4. CASE GoesOn /\ ~StandsStill /\ ~Ends /\ ~Begins /\ ~Errs /\ ~Fails
  <2>1. CASE pc = "restoreCache"
    <3>1. RestoreCache /\ pc' = "restoreManifest"
      BY <1>4, <2>1, StepOf DEF AtStep, GoesOn
    <3>2. cache' = Restored /\ job' = job
      BY <2>1, <3>1, ErrorMoves, WriteErrorMoves, TypeParts
      DEF RestoreCache, Then, Stops, Undoes, Turns
    <3> QED BY <3>1, <3>2 DEF Restored, PutBack
  <2>2. CASE pc = "restoreManifest"
    <3>1. RestoreManifest /\ pc' = "restored"
      BY <1>4, <2>2, StepOf DEF AtStep, GoesOn
    <3>2. manifest'.content = job.manifest /\ job' = job /\ cache' = cache
      BY <2>2, <3>1, ErrorMoves, WriteErrorMoves, TypeParts
      DEF RestoreManifest, Then, Stops, Undoes, Turns
    <3> QED BY <2>2, <3>1, <3>2 DEF PutBack
  <2> QED BY <1>4, <2>1, <2>2 DEF GoesOn, PutBack
<1>5. CASE StandsStill /\ ~Ends /\ ~(cache' = cache /\ manifest' = manifest)
  <2>1. \/ \E c \in Contents : EditCache(c)
        \/ \E m \in Manifests : EditManifest(m)
        \/ QuarantineMove \/ QuarantineRewrite \/ Rename \/ Reconcile \/ Commit
        \/ RestoreCache \/ RestoreManifest
    BY <1>5, WhoWrites
  <2>2. pc \notin {"restoreManifest", "restored"} \/ RestoreManifest \/ PutBack'
    BY <1>1, <2>1 DEF QuarantineMove, QuarantineRewrite, Rename, Reconcile, Commit, RestoreCache
  <2>3. ~RestoreManifest
    BY <1>5, ErrorMoves, WriteErrorMoves, TypeParts
    DEF RestoreManifest, Then, Stops, Undoes, Turns, StandsStill, Ends
  <2> QED BY <1>5, <2>2, <2>3 DEF StandsStill, PutBack
<1> QED BY <1>1, <1>2, <1>3, <1>4, <1>5, Moves

LEMMA ResolvingStep ==
  ASSUME TypeOK, ControlInv, Resolving, [Next]_vars
  PROVE  Resolving'
<1>1. CASE Rearm
  BY <1>1 DEF Rearm, Idle, Resolving
<1>2. CASE Ends \/ Begins \/ Errs \/ Fails \/ OpenLive
  BY <1>2 DEF Ends, Begins, Errs, Fails, Undoes, Restores, Turns, OpenLive, End, Resolving
<1>3. CASE GoesOn /\ ~StandsStill /\ ~Ends /\ ~Begins
  <2>1. CASE pc = "recon"
    <3>1. Reconcile /\ pc' = "verify"
      BY <1>3, <2>1, StepOf DEF AtStep, GoesOn
    <3>2. ~armed /\ armed' = armed
      BY <3>1, VerifyFailsMoves, TypeParts
      DEF Reconcile, Recurred, Stops, Restores, Turns
    <3> QED BY <3>1, <3>2 DEF Resolving
  <2>2. CASE pc = "verify"
    <3>1. Verify /\ pc' = "commit"
      BY <1>3, <2>2, StepOf DEF AtStep, GoesOn
    <3>2. Sound /\ UNCHANGED << cache, manifest, install, armed >>
      BY <3>1, VerifyFailsMoves, TypeParts
      DEF Verify, files, world, Sound, Stops, Restores, Turns
    <3>3. Sound'
      BY <3>2 DEF Sound, Live, Classify, Healthy, VersionSkewed, Stale, Overwritten, Corrupted
    <3> QED BY <2>2, <3>1, <3>2, <3>3 DEF Resolving
  <2> QED BY <1>3, <2>1, <2>2 DEF GoesOn, Resolving
<1>4. ASSUME StandsStill, ~Rearm, pc \in {"verify", "commit"}
      PROVE  Resolving'
  <2>1. armed' = armed
    BY <1>4, WhoWrites
  <2>2. CASE \/ \E c \in Contents : EditCache(c)
             \/ \E m \in Manifests : EditManifest(m)
    <3>1. job'.raced = ~Idle
      BY <2>2, TypeParts DEF EditCache, EditManifest, CallOK, Job
    <3> QED BY <1>4, <2>1, <3>1 DEF StandsStill, Idle, Resolving
  <2>3. CASE UNCHANGED << cache, manifest >>
    <3>1. Sound' <=> Sound
      BY <2>3, WhoWrites
      DEF Sound, Live, Classify, Healthy, VersionSkewed, Stale, Overwritten, Corrupted
    <3> QED BY <1>4, <2>1, <3>1 DEF StandsStill, Idle, Resolving
  <2>4. CASE Commit /\ cache' # cache
    BY <1>4, <2>4 DEF Commit, Then, StandsStill
  <2> QED BY <1>4, <2>2, <2>3, <2>4, WhoWrites
          DEF QuarantineMove, QuarantineRewrite, Rename, Reconcile, RestoreCache, RestoreManifest
<1> QED BY <1>1, <1>2, <1>3, <1>4, Moves DEF StandsStill, Resolving

\* In a running call: what may happen instead of the action of its step.
LEMMA AtWork ==
  ASSUME [Next]_vars, pc # "idle"
  PROVE  \/ AtStep \/ Crash \/ UNCHANGED vars
         \/ (\E c \in Contents : EditCache(c)) \/ (\E m \in Manifests : EditManifest(m))
<1>1. ASSUME NEW t \in Tokens, Preview(t) \/ Apply(t) PROVE FALSE
  BY <1>1 DEF Preview, Apply, Idle
<1>2. Rollback \/ VerifyAgain \/ Rearm => FALSE
  BY DEF Rollback, VerifyAgain, Rearm, Idle
<1>3. CheckToken \/ QuarantineUnlink \/ QuarantineCheck \/ Reopen \/ Check => AtStep
  BY DEF CheckToken, QuarantineUnlink, QuarantineCheck, Reopen, Check, AtStep
<1>4. \/ OpenLive \/ BackupCache \/ BackupManifest \/ QuarantineMove
      \/ QuarantineRewrite \/ Rename \/ PostHash \/ Save
      => AtStep
  BY DEF OpenLive, BackupCache, BackupManifest, QuarantineMove, QuarantineRewrite, Rename,
         PostHash, Save, AtStep
<1>5. Reconcile \/ Verify \/ Commit \/ RestoreCache \/ RestoreManifest \/ SaveRestored => AtStep
  BY DEF Reconcile, Verify, Commit, RestoreCache, RestoreManifest, SaveRestored, AtStep
<1> QED BY <1>1, <1>2, <1>3, <1>4, <1>5 DEF Next

\* With one failing write at most, the best-effort restore comes after it and
\* cannot fail itself: its backup is there, and so is the file.
LEMMA AccountedStep ==
  ASSUME MaxFails <= 1,
         TypeOK, ControlInv, BackedUp, RepairIsTrusted, Accounted, [Next]_vars
  PROVE  Accounted'
<1> USE PluginRepairAssumption DEF PluginRepairAssumption
<1>0. CallOK /\ FilesOK /\ TallyOK
  BY TypeParts
<1>1. CASE cache' # cache
  <2>1. cache'.by = "pending" => Rename
    BY <1>0, <1>1, WhoWrites
    DEF QuarantineMove, QuarantineRewrite, Reconcile, RestoreCache, Restored, EditCache, Commit,
        FilesOK
  <2>2. Rename => pc' = "posthash" /\ job'.what = "repair"
    BY <1>1 DEF Rename, Then, ControlInv, Purpose, Forward, Preparing
  <2> QED BY <2>1, <2>2 DEF Accounted
<1>2. ASSUME cache' = cache, cache.by = "pending", crashes' = 0
      PROVE  Accounted'
  <2>0. crashes = 0 /\ cache.content = Trusted /\ Present /\ ~Crash
    BY <1>0, <1>2, WhoWrites DEF Crash, TallyOK, FilesOK, RepairIsTrusted, Present
  <2>1. pc # "idle" /\ job.fails \in 0..MaxFails
    BY <1>0, <1>2, <2>0 DEF Accounted, CallOK, Job
  <2>2. CASE UNCHANGED vars \/ \E m \in Manifests : EditManifest(m)
    <3>1. pc' = pc /\ job'.what = job.what /\ job'.fails = job.fails
      BY <1>0, <2>2 DEF vars, EditManifest, CallOK, Job
    <3> QED BY <1>2, <2>0, <3>1 DEF Accounted
  <2>3. CASE AtStep /\ pc = "posthash" /\ job.what = "repair"
    BY <2>0, <2>3 DEF AtStep, PostHash, Then, Accounted
  <2>4. CASE AtStep /\ pc \in {"save", "commit"} /\ job.what = "repair"
    <3>1. Save \/ Commit
      BY <2>4 DEF AtStep
    <3>2. CASE OnWriteError
      <4>1. job.what = "repair" => job'.fails = job.fails + 1 /\ Undoes
        BY <1>0, <3>2, FailedType, RestoreMoves
        DEF OnWriteError, Raise, CallOK, Undoes, Turns, Purposes
      <4> QED BY <2>1, <2>4, <4>1 DEF Undoes, Turns, Accounted
    <3>3. CASE Commit /\ ~OnWriteError
      <4>1. cache'.by = "verified"
        BY <1>0, <1>2, <3>3 DEF Commit, FilesOK
      <4> QED BY <1>2, <4>1
    <3>4. CASE Save /\ ~OnWriteError
      BY <2>4, <3>4 DEF Save, Then, Accounted
    <3> QED BY <3>1, <3>2, <3>3, <3>4
  <2>5. CASE AtStep /\ pc \in {"recon", "verify"} /\ job.what = "repair"
    <3>1. Reconcile \/ Verify
      BY <2>5 DEF AtStep
    <3>2. CASE VerifyFails \/ (WriteFails /\ VerifyFailed(Failed))
      <4>1. Restores
        BY <1>0, <2>5, <3>2, FailedType, RestoreMoves
        DEF VerifyFails, VerifyFailed, CallOK, Restores, Turns, Purposes
      <4> QED BY <4>1 DEF Restores, Turns, Accounted
    <3>3. CASE Then("verify") \/ Then("commit")
      BY <2>5, <3>3 DEF Then, Accounted
    <3> QED BY <2>5, <3>1, <3>2, <3>3 DEF Reconcile, Recurred, Verify
  <2>6. CASE AtStep /\ pc = "restoreCache" /\ job.what \in {"restore", "undo"}
    <3>1. RestoreCache /\ backup.cache = job.orig
      BY <2>6 DEF AtStep, BackedUp, Unbacked, Pair
    <3>2. cache' # Restored
      BY <1>2 DEF Restored
    <3>3. OnWriteError
      BY <2>0, <3>1, <3>2 DEF RestoreCache
    <3>4. job.what = "restore"
      BY <1>2, <2>0, <2>1, <2>6, <3>3 DEF Accounted, OnWriteError, WriteFails
    <3>5. job'.fails = job.fails + 1 /\ Undoes
      BY <1>0, <3>3, <3>4, FailedType, RestoreMoves
      DEF OnWriteError, Raise, CallOK, Undoes, Turns, Purposes
    <3> QED BY <2>1, <3>5 DEF Undoes, Turns, Accounted
  <2>7. ~\E c \in Contents : EditCache(c)
    BY <1>2 DEF EditCache
  <2> QED BY <1>2, <2>0, <2>1, <2>2, <2>3, <2>4, <2>5, <2>6, <2>7, AtWork DEF Accounted
<1> QED BY <1>1, <1>2 DEF Accounted

-----------------------------------------------------------------------------
\* The inductive invariant of a repair, and that of its accounting.
PairInv ==
  /\ TypeOK /\ ControlInv
  /\ BackedUp /\ Untouched /\ RepairIsTrusted /\ VerifiedLast
  /\ SessionNames /\ Again /\ Found /\ PutBack /\ Resolving

LEMMA InitPair == Init => PairInv /\ Accounted
<1> SUFFICES ASSUME Init PROVE PairInv /\ Accounted
  OBVIOUS
<1>1. TypeOK /\ ControlInv
  BY InitType
<1>2. pc = "idle" /\ cache.by = "user" /\ before = cache.content
  BY DEF Init
<1> QED
  BY <1>1, <1>2 DEF PairInv, BackedUp, Untouched, RepairIsTrusted, VerifiedLast, SessionNames,
                    Again, Found, PutBack, Resolving, Accounted, Unbacked, Preparing, Taken

LEMMA PairStep ==
  ASSUME PairInv, [Next]_vars
  PROVE  PairInv'
<1> USE DEF PairInv
<1>0. FilesOK
  BY TypeParts
<1>1. TypeOK' /\ ControlInv'
  BY TypeStep
<1>2. BackedUp' /\ Untouched' /\ VerifiedLast'
  BY BackedUpStep, UntouchedStep, VerifiedLastStep
<1>3. RepairIsTrusted' /\ SessionNames' /\ Again' /\ Found'
  BY <1>0, RepairIsTrustedStep, SessionNamesStep, AgainStep, FoundStep
<1>4. PutBack' /\ Resolving'
  BY PutBackStep, ResolvingStep
<1> QED BY <1>1, <1>2, <1>3, <1>4

LEMMA PairInvariant == Spec => []PairInv
BY InitPair, PairStep, PTL DEF Spec

\* The state of the repair keeps its types: the files, what is kept of them,
\* the session, the tokens and the locals of the running call.
THEOREM TypeCorrect == Spec => []TypeOK
<1>1. PairInv => TypeOK
  BY DEF PairInv
<1> QED BY <1>1, PairInvariant, PTL

\* BytesKept: whatever an apply, its restore and any rollbacks after it made of
\* the cache entry, the bytes the apply found are in the entry, in the backup or
\* in the quarantine, also where a write failed or the process died with the
\* entry gone, and bytes that were put back are those.  Bytes that came into the
\* entry after the apply are not covered: a rollback overwrites them.
THEOREM FoundBytesAreKept == Spec => []BytesKept
<1>1. PairInv => BytesKept
  BY DEF PairInv, Found, Taken, BytesKept
<1> QED BY <1>1, PairInvariant, PTL

\* PairRollbackable: as long as the cache holds a verified repair, session and
\* backups agree on the pair of files that a rollback will put back.
THEOREM VerifiedPairIsRollbackable == Spec => []PairRollbackable
<1>1. PairInv => PairRollbackable
  BY DEF PairInv, SessionNames, Pair, PairRollbackable
<1> QED BY <1>1, PairInvariant, PTL

\* PairRestored: a session comes to say that a repair is rolled back only when
\* both files hold what they held before the apply.
THEOREM SessionSaysRestored == Spec => PairRestored
<1>1. ASSUME PairInv, [Next]_vars, session' # session, ~job.raced,
             session'.status \in {"auto_rolled_back", "explicit_rollback"}
      PROVE  cache.content = session'.orig /\ manifest.content = session'.manifest
  <2>1. SaveRestored
    BY <1>1, WhoWrites DEF Save, Commit, SessionOf
  <2>2. session'.orig = job.orig /\ session'.manifest = job.manifest /\ pc = "restored"
    BY <1>1, <2>1 DEF SaveRestored, SessionOf
  <2> QED BY <1>1, <2>2 DEF PairInv, PutBack
<1> QED BY <1>1, PairInvariant, PTL DEF Spec, PairRestored

\* ResolvedSurvivesCycle: a session becomes resolved_verified only where the
\* next reconciliation cycle leaves the repair alone and no mechanism is left.
THEOREM ResolvedMeansResolved == Spec => ResolvedSurvivesCycle
<1>1. ASSUME PairInv, [Next]_vars, session' # session, ~job.raced,
             session'.status = "resolved_verified"
      PROVE  ~armed /\ Classify(Live) = NoMechanism /\ cache.content = Trusted
  <2>1. Commit
    BY <1>1, WhoWrites DEF Save, SaveRestored, SessionOf
  <2>2. pc = "commit"
    BY <2>1 DEF Commit
  <2> QED BY <1>1, <2>2 DEF PairInv, Resolving, Sound
<1> QED BY <1>1, PairInvariant, PTL DEF Spec, ResolvedSurvivesCycle

\* NothingPending: where at most one write of a call fails, a call that ends,
\* other than by dying, leaves no unverified repair in the cache.
THEOREM NoRepairLeftPending ==
  ASSUME MaxFails <= 1
  PROVE  Spec => []NothingPending
<1>1. Init => PairInv /\ Accounted
  BY InitPair
<1>2. PairInv /\ Accounted /\ [Next]_vars => (PairInv /\ Accounted)'
  BY PairStep, AccountedStep DEF PairInv
<1>3. PairInv /\ Accounted => NothingPending
  BY DEF Accounted, NothingPending, Idle
<1> QED BY <1>1, <1>2, <1>3, PTL DEF Spec

===============================================================================
