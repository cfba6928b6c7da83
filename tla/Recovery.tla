------------------------------- MODULE Recovery -------------------------------
(***************************************************************************)
(* The registered repair transaction (src/core/recovery): preview mints a  *)
(* self-contained token bound to the bytes of one file; apply backs the    *)
(* file up, replaces it, records a session, verifies and either commits or *)
(* restores; rollback restores what the session names.  CLI and MCP calls  *)
(* are processes without a common lock.  Between their steps a user may    *)
(* edit the file, a write may fail, and a process may die.                 *)
(*                                                                         *)
(* Bytes are members of Contents, so that equal hashes are equal contents. *)
(* The refusals that precede every write and read nothing the transaction  *)
(* changes (write gates, managed policy, malformed tokens) are left out.   *)
(***************************************************************************)
EXTENDS Integers, FiniteSets

CONSTANTS
  Files,       \* registered repair targets of one target root
  Precedes,    \* pairs of files: a fault of the first is previewed first
  Contents,    \* what a file can hold
  Fix,         \* the repair plan: from each faulty content to its result
  Tokens,      \* authorization tokens (their random nonces)
  Procs,       \* calls of apply and rollback
  NoToken, NoContent,
  Concurrent,  \* TRUE: calls may overlap
  Edits,       \* when a user edits: a subset of {"between", "during", "inPlace"}
  MaxFails,    \* bound: failing writes in one call
  MaxCrashes,  \* bound: calls that die
  MaxApplied   \* bound: successful applies of one token

Faulty == DOMAIN Fix

ASSUME RecoveryAssumption ==
  /\ Files # {} /\ NoToken \notin Tokens /\ NoContent \notin Contents
  /\ Precedes \subseteq Files \X Files
  /\ Faulty \subseteq Contents
  /\ \A c \in Faulty : Fix[c] \in Contents \ {c}
  /\ Concurrent \in BOOLEAN
  /\ MaxFails \in Nat /\ MaxCrashes \in Nat /\ MaxApplied \in Nat

VARIABLES
  file,     \* each target's bytes and, as history, who put them there
  backup,   \* .changeguard/backup of each target
  session,  \* .changeguard/session.json
  tokens,   \* what each token minted so far binds
  pc, job,  \* each call: its step, and what it works on
  held,     \* whether the file a call opened still is the file at its path
  fails,    \* writes that failed in each call
  crashes,
  applied   \* history: applies of each token that ended RESOLVED_VERIFIED

vars == << file, backup, session, tokens, pc, job, held, fails, crashes, applied >>

Steps    == {"idle", "token", "live", "backup", "reread", "check", "rename",
             "posthash", "save", "verify", "commit"}
Purposes == {"repair", "restore", "undo", "rollback"}
Writers  == {"user", "pending", "verified", "restored"}
Statuses == {"none", "applied_pending_verify", "auto_rolled_back",
             "resolved_verified", "explicit_rollback"}

Binding   == [file : Files, orig : Faulty, fresh : BOOLEAN]
Unminted  == [file |-> CHOOSE f \in Files : TRUE, orig |-> NoContent, fresh |-> FALSE]
Minted(t) == tokens[t].orig # NoContent

NoSession == [status |-> "none", token |-> NoToken,
              file |-> CHOOSE f \in Files : TRUE, orig |-> NoContent]

\* What a call is replacing, and by what.
Target(p) == job[p].file
Orig(p)   == job[p].orig
New(p)    == IF job[p].what = "repair" THEN Fix[Orig(p)] ELSE Orig(p)

AllIdle == \A p \in Procs : pc[p] = "idle"
MayStart(p) == pc[p] = "idle" /\ (Concurrent \/ AllIdle)

Goto(p, to) == pc' = [pc EXCEPT ![p] = to]
Refuse(p)   == Goto(p, "idle") /\ UNCHANGED job

\* restoreFromBackup begins, for the given purpose.
Restore(p, purpose) ==
  /\ job' = [job EXCEPT ![p].what = purpose]
  /\ Goto(p, "reread")

\* Mutant: an error after the backup ends the call.
OnError_Fails(p) == Goto(p, "idle") /\ UNCHANGED job

(***************************************************************************)
(* An exception: inside the try of applyRepair it leads to the best-effort *)
(* restore; in that restore, and in a rollback, it ends the call.          *)
(***************************************************************************)
OnError(p) ==
  IF job[p].what \in {"repair", "restore"} THEN Restore(p, "undo") ELSE Refuse(p)

\* A write of the call fails.
WriteFails(p) ==
  /\ fails[p] < MaxFails
  /\ fails' = [fails EXCEPT ![p] = @ + 1]

\* The path of f gets a new inode, so no call has that file open any more.
Displaced(f) == [q \in Procs |-> held[q] /\ job[q].file # f]

Init ==
  /\ file \in [Files -> [content : Contents, by : {"user"}]]
  /\ backup = [f \in Files |-> NoContent]
  /\ session = NoSession
  /\ tokens = [t \in Tokens |-> Unminted]
  /\ pc = [p \in Procs |-> "idle"]
  /\ job = [p \in Procs |-> [token |-> NoToken, file |-> Unminted.file,
                             orig |-> NoContent, what |-> "rollback"]]
  /\ held = [p \in Procs |-> FALSE]
  /\ fails = [p \in Procs |-> 0]
  /\ crashes = 0
  /\ applied = [t \in Tokens |-> 0]

\* previewRepair writes nothing; its token binds the bytes it measured of the
\* first registered target that has a fault.
Preview(t) ==
  /\ ~Minted(t)
  /\ \E f \in Files :
       /\ file[f].content \in Faulty
       /\ \A g \in Files : << g, f >> \in Precedes => file[g].content \notin Faulty
       /\ tokens' = [tokens EXCEPT ![t] = [file |-> f, orig |-> file[f].content,
                                           fresh |-> TRUE]]
  /\ UNCHANGED << file, backup, session, pc, job, held, fails, crashes, applied >>

\* The hour of a token is over.
Expire(t) ==
  /\ tokens[t].fresh
  /\ tokens' = [tokens EXCEPT ![t].fresh = FALSE]
  /\ UNCHANGED << file, backup, session, pc, job, held, fails, crashes, applied >>

Apply(p, t) ==
  /\ MayStart(p)
  /\ Minted(t)
  /\ applied[t] < MaxApplied
  /\ job' = [job EXCEPT ![p] = [token |-> t, file |-> tokens[t].file,
                                orig |-> tokens[t].orig, what |-> "repair"]]
  /\ fails' = [fails EXCEPT ![p] = 0]
  /\ Goto(p, "token")
  /\ UNCHANGED << file, backup, session, tokens, held, crashes, applied >>

\* refuseConsumedToken: the token the last session consumed is a replay.
Consumed(t) ==
  /\ session.status \in {"resolved_verified", "explicit_rollback"}
  /\ session.token = t

CheckToken(p) ==
  /\ pc[p] = "token"
  /\ IF Consumed(job[p].token)
     THEN Refuse(p)
     ELSE Goto(p, "live") /\ UNCHANGED job
  /\ UNCHANGED << file, backup, session, tokens, held, fails, crashes, applied >>

\* recomputeLiveBinding opens the file and revalidates the token against it.
OpenLive(p) ==
  /\ pc[p] = "live"
  /\ IF tokens[job[p].token].fresh /\ file[Target(p)].content = Orig(p)
     THEN /\ held' = [held EXCEPT ![p] = TRUE]
          /\ Goto(p, "backup") /\ UNCHANGED job
     ELSE Refuse(p) /\ UNCHANGED held
  /\ UNCHANGED << file, backup, session, tokens, fails, crashes, applied >>

\* Mutant: a backup that is there is kept.
Backed_KeepsFirst(p) ==
  IF backup[Target(p)] = NoContent
  THEN [backup EXCEPT ![Target(p)] = Orig(p)] ELSE backup

Backed(p) == [backup EXCEPT ![Target(p)] = Orig(p)]

(***************************************************************************)
(* createVerifiedBackup overwrites the registered backup with the bytes    *)
(* opened; without its receipt an error restores nothing.                  *)
(***************************************************************************)
Backup(p) ==
  /\ pc[p] = "backup"
  /\ \/ backup' = Backed(p) /\ Goto(p, "check") /\ UNCHANGED << job, fails >>
     \/ WriteFails(p) /\ backup' \in {backup, Backed(p)} /\ Refuse(p)
  /\ UNCHANGED << file, session, tokens, held, crashes, applied >>

\* restoreFromBackup: the backup must hash to the original; the file is opened.
Reread(p) ==
  /\ pc[p] = "reread"
  /\ IF backup[Target(p)] = Orig(p)
     THEN /\ held' = [held EXCEPT ![p] = TRUE]
          /\ Goto(p, "check") /\ UNCHANGED job
     ELSE OnError(p) /\ UNCHANGED held
  /\ UNCHANGED << file, backup, session, tokens, fails, crashes, applied >>

\* atomicReplaceFile: device, inode and size must be those of the open file.
Check(p) ==
  /\ pc[p] = "check"
  /\ IF held[p] THEN Goto(p, "rename") /\ UNCHANGED job ELSE OnError(p)
  /\ UNCHANGED << file, backup, session, tokens, held, fails, crashes, applied >>

\* atomicReplaceFile: a temporary file is written, synced and renamed over.
Rename(p) ==
  /\ pc[p] = "rename"
  /\ \/ /\ file' = [file EXCEPT ![Target(p)] =
                      [content |-> New(p),
                       by |-> IF job[p].what = "repair" THEN "pending" ELSE "restored"]]
        /\ held' = Displaced(Target(p))
        /\ Goto(p, "posthash") /\ UNCHANGED << job, fails >>
     \/ WriteFails(p) /\ OnError(p) /\ UNCHANGED << file, held >>
  /\ UNCHANGED << backup, session, tokens, crashes, applied >>

\* atomicReplaceFile: the path is read again and must hash to the new bytes.
PostHash(p) ==
  /\ pc[p] = "posthash"
  /\ \/ /\ file[Target(p)].content = New(p)
        /\ Goto(p, IF job[p].what = "undo" THEN "idle" ELSE "save")
        /\ UNCHANGED job
     \/ file[Target(p)].content # New(p) /\ OnError(p)
  /\ UNCHANGED << file, backup, session, tokens, held, fails, crashes, applied >>

SessionOf(p, status) ==
  [status |-> status, token |-> job[p].token, file |-> Target(p), orig |-> Orig(p)]

StatusFor(what) ==
  CASE what = "repair"   -> "applied_pending_verify"
    [] what = "restore"  -> "auto_rolled_back"
    [] what = "rollback" -> "explicit_rollback"

\* writeSessionState after a replacement or a restore.
Save(p) ==
  /\ pc[p] = "save"
  /\ \/ /\ session' = SessionOf(p, StatusFor(job[p].what))
        /\ Goto(p, IF job[p].what = "repair" THEN "verify" ELSE "idle")
        /\ UNCHANGED << job, fails >>
     \/ WriteFails(p) /\ OnError(p) /\ UNCHANGED session
  /\ UNCHANGED << file, backup, tokens, held, crashes, applied >>

(***************************************************************************)
(* runVerification: it can pass only on the expected result without any    *)
(* fault left, and fail on anything (health checks, the harness sentinel). *)
(***************************************************************************)
Verify(p) ==
  /\ pc[p] = "verify"
  /\ \/ /\ file[Target(p)].content = New(p) /\ New(p) \notin Faulty
        /\ Goto(p, "commit") /\ UNCHANGED job
     \/ Restore(p, "restore")
  /\ UNCHANGED << file, backup, session, tokens, held, fails, crashes, applied >>

\* Mutant: the session is not saved again after verification.
Committed_Pending(p) == SessionOf(p, "applied_pending_verify")

Committed(p) == SessionOf(p, "resolved_verified")

\* The session consumes the token and RESOLVED_VERIFIED is returned.
Commit(p) ==
  /\ pc[p] = "commit"
  /\ \/ /\ session' = Committed(p)
        /\ applied' = [applied EXCEPT ![job[p].token] = @ + 1]
        /\ file' = [file EXCEPT ![Target(p)].by =
                      IF @ = "pending" THEN "verified" ELSE @]
        /\ Goto(p, "idle") /\ UNCHANGED << job, fails >>
     \/ WriteFails(p) /\ OnError(p) /\ UNCHANGED << file, session, applied >>
  /\ UNCHANGED << backup, tokens, held, crashes >>

\* rollbackRepair: the session says which file, and which original bytes.
Rollback(p) ==
  /\ MayStart(p)
  /\ session.status # "none"
  /\ job' = [job EXCEPT ![p] = [token |-> session.token, file |-> session.file,
                                orig |-> session.orig, what |-> "rollback"]]
  /\ fails' = [fails EXCEPT ![p] = 0]
  /\ Goto(p, "reread")
  /\ UNCHANGED << file, backup, session, tokens, held, crashes, applied >>

Crash(p) ==
  /\ pc[p] # "idle"
  /\ crashes < MaxCrashes
  /\ crashes' = crashes + 1
  /\ Goto(p, "idle")
  /\ UNCHANGED << file, backup, session, tokens, job, held, fails, applied >>

(***************************************************************************)
(* The user writes the file: editors replace it, so that it has a new      *)
(* inode or size, or write in place, keeping both.                         *)
(***************************************************************************)
Edit(f, c) ==
  /\ (AllIdle /\ "between" \in Edits) \/ "during" \in Edits
  /\ c # file[f].content
  /\ file' = [file EXCEPT ![f] = [content |-> c, by |-> "user"]]
  /\ \/ held' = Displaced(f)
     \/ "inPlace" \in Edits /\ UNCHANGED held
  /\ UNCHANGED << backup, session, tokens, pc, job, fails, crashes, applied >>

Step(p) ==
  \/ CheckToken(p) \/ OpenLive(p) \/ Backup(p) \/ Reread(p) \/ Check(p)
  \/ Rename(p) \/ PostHash(p) \/ Save(p) \/ Verify(p) \/ Commit(p)

Next ==
  \/ \E t \in Tokens : Preview(t) \/ Expire(t) \/ \E p \in Procs : Apply(p, t)
  \/ \E p \in Procs : Rollback(p) \/ Step(p) \/ Crash(p)
  \/ \E f \in Files, c \in Contents : Edit(f, c)

Spec == Init /\ [][Next]_vars

-----------------------------------------------------------------------------
TypeOK ==
  /\ file \in [Files -> [content : Contents, by : Writers]]
  /\ backup \in [Files -> Faulty \cup {NoContent}]
  /\ session \in [status : Statuses, token : Tokens \cup {NoToken},
                  file : Files, orig : Faulty \cup {NoContent}]
  /\ session.status # "none" => session.orig \in Faulty
  /\ tokens \in [Tokens -> Binding \cup {Unminted}]
  /\ pc \in [Procs -> Steps]
  /\ job \in [Procs -> [token : Tokens \cup {NoToken}, file : Files,
                        orig : Faulty \cup {NoContent}, what : Purposes]]
  /\ \A p \in Procs : pc[p] # "idle" => Orig(p) \in Faulty
  /\ held \in [Procs -> BOOLEAN]
  /\ fails \in [Procs -> 0..MaxFails]
  /\ crashes \in 0..MaxCrashes
  /\ applied \in [Tokens -> Nat]

\* The file holds bytes that a repair put there.
Repaired(f) == file[f].by \in {"pending", "verified"}

(***************************************************************************)
(* "Create verified backup of original bytes": as long as a file holds a   *)
(* repair's result its backup holds the bytes that repair replaced,        *)
(* whatever was edited, failed or died before, between and after.          *)
(***************************************************************************)
Undoable ==
  \A f \in Files :
    Repaired(f) => backup[f] \in Faulty /\ file[f].content = Fix[backup[f]]

(***************************************************************************)
(* "On any verification failure, automatically restore exact original      *)
(* bytes": an apply that ends, other than by dying, either was verified or *)
(* leaves nothing of its own in the file, also when one of its writes      *)
(* fails.                                                                  *)
(***************************************************************************)
AllOrNothing ==
  AllIdle /\ crashes = 0 => \A f \in Files : file[f].by # "pending"

(***************************************************************************)
(* A session that does not say resolved_verified names a file without a    *)
(* repair in it, once the calls have ended and none has died.              *)
(***************************************************************************)
UnresolvedMeansUnrepaired ==
  AllIdle /\ crashes = 0 /\ session.status \notin {"none", "resolved_verified"}
    => ~Repaired(session.file)

(***************************************************************************)
(* "Explicit rollback restores original bytes from the verified backup":   *)
(* a repair that was verified and not edited since can be rolled back.     *)
(***************************************************************************)
Rollbackable ==
  AllIdle => \A f \in Files :
    file[f].by = "verified" => session.file = f /\ session.orig = backup[f]

(***************************************************************************)
(* "After a successful apply the same token is consumed and cannot apply   *)
(* again; after explicit rollback the token remains consumed."             *)
(***************************************************************************)
TokenAppliesOnce == \A t \in Tokens : applied[t] <= 1

(***************************************************************************)
(* "Refuse TOCTOU": an apply that finds the file changed under it does not *)
(* write over the change; what it undoes is its own repair.                *)
(***************************************************************************)
UndoesOnlyItself ==
  [][\A p \in Procs :
       Rename(p) /\ job[p].what = "undo" /\ file' # file
         => file[Target(p)].by = "pending" \/ file[Target(p)].content = Orig(p)]_vars
===============================================================================
