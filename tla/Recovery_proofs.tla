--------------------------- MODULE Recovery_proofs ----------------------------
(***************************************************************************)
(* Proofs about the repair transaction: types; where calls do not overlap  *)
(* and a repair leaves no registered fault behind, every repair in place   *)
(* can be undone, an apply is all or nothing under one failing write, and  *)
(* with one target file a verified repair can be rolled back.              *)
(***************************************************************************)
EXTENDS Recovery, TLAPS

Running(p) == pc[p] # "idle"

\* Steps that belong to the forward part of an apply.
Forward == {"token", "live", "backup", "verify", "commit"}

\* The call is past its backup, so the backup is the one it works with.
PastBackup(p) ==
  /\ pc[p] \in {"reread", "check", "rename", "posthash", "save", "verify", "commit"}
  /\ job[p].what = "rollback" => pc[p] # "reread"

\* Calls do not overlap.
OneCall == \A p, q \in Procs : Running(p) /\ Running(q) => p = q

Purpose ==
  \A p \in Procs :
    /\ pc[p] \in Forward => job[p].what = "repair"
    /\ pc[p] = "save" => job[p].what # "undo"
    /\ pc[p] = "reread" => job[p].what # "repair"

BackedUp == \A p \in Procs : PastBackup(p) => backup[Target(p)] = Orig(p)

\* Until it renames, an apply works on a file without a repair.
Untouched ==
  \A p \in Procs :
    pc[p] \in {"backup", "check", "rename"} /\ job[p].what = "repair"
      => ~Repaired(Target(p))

\* Where the bytes an apply wrote are still unverified, the call that wrote
\* them is running and no error can keep it from verifying or undoing them.
Accountable(p) ==
  \/ job[p].what = "repair" /\ pc[p] \in {"posthash", "save", "verify", "commit"}
  \/ /\ job[p].what \in {"restore", "undo"}
     /\ pc[p] \in {"reread", "check", "rename"}
     /\ pc[p] # "reread" => held[p]
     /\ job[p].what = "undo" => fails[p] >= MaxFails

Accounted ==
  crashes = 0 => \A f \in Files : file[f].by = "pending" =>
    \E p \in Procs : Running(p) /\ Target(p) = f /\ Accountable(p)

\* A verified repair is not touched by an apply, nor by a rollback that is done.
VerifiedKept ==
  \A p \in Procs :
    \/ pc[p] \in {"idle", "token", "live"}
    \/ job[p].what = "rollback" /\ pc[p] \notin {"posthash", "save"}
    \/ file[Target(p)].by # "verified"

SessionNames ==
  \A f \in Files : file[f].by = "verified" =>
    session.file = f /\ session.orig = backup[f]

-----------------------------------------------------------------------------
Job == [token : Tokens \cup {NoToken}, file : Files,
        orig : Faulty \cup {NoContent}, what : Purposes]

\* The part of TypeOK about the calls.
CallsOK ==
  /\ pc \in [Procs -> Steps]
  /\ job \in [Procs -> Job]
  /\ \A p \in Procs : pc[p] # "idle" => Orig(p) \in Faulty

\* What the calls act on.
StoreOK ==
  /\ file \in [Files -> [content : Contents, by : Writers]]
  /\ backup \in [Files -> Faulty \cup {NoContent}]
  /\ session \in [status : Statuses, token : Tokens \cup {NoToken},
                  file : Files, orig : Faulty \cup {NoContent}]
  /\ session.status # "none" => session.orig \in Faulty

\* The rest: what is minted, open, failing and counted.
TallyOK ==
  /\ tokens \in [Tokens -> Binding \cup {Unminted}]
  /\ held \in [Procs -> BOOLEAN]
  /\ fails \in [Procs -> 0..MaxFails]
  /\ crashes \in 0..MaxCrashes
  /\ applied \in [Tokens -> Nat]

LEMMA TypeParts == TypeOK <=> StoreOK /\ TallyOK /\ CallsOK
BY DEF TypeOK, StoreOK, TallyOK, CallsOK, Job

LEMMA RefuseType ==
  ASSUME CallsOK, NEW p \in Procs, Refuse(p)
  PROVE  CallsOK'
BY DEF CallsOK, Refuse, Goto, Steps, Orig

LEMMA GotoType ==
  ASSUME CallsOK, NEW p \in Procs, pc[p] # "idle", NEW to \in Steps,
         Goto(p, to), UNCHANGED job
  PROVE  CallsOK'
BY DEF CallsOK, Goto, Orig

LEMMA RestoreType ==
  ASSUME CallsOK, NEW p \in Procs, pc[p] # "idle", NEW w \in Purposes, Restore(p, w)
  PROVE  CallsOK'
<1> DEFINE j(q) == IF q = p THEN [job[p] EXCEPT !.what = w] ELSE job[q]
<1>1. \A q \in Procs : j(q) \in Job /\ j(q).orig = job[q].orig
  BY DEF CallsOK, Job
<1>2. job' = [q \in Procs |-> j(q)]
  BY DEF CallsOK, Restore
<1>3. job' \in [Procs -> Job] /\ \A q \in Procs : Orig(q)' = Orig(q)
  <2> HIDE DEF j
  <2> QED BY <1>1, <1>2 DEF Orig
<1>4. pc' \in [Procs -> Steps] /\ \A q \in Procs : pc'[q] # "idle" => pc[q] # "idle"
  BY DEF CallsOK, Restore, Goto, Steps
<1> QED BY <1>3, <1>4 DEF CallsOK

LEMMA OnErrorType ==
  ASSUME CallsOK, NEW p \in Procs, pc[p] # "idle", OnError(p)
  PROVE  CallsOK'
<1>1. CASE Restore(p, "undo")
  BY <1>1, RestoreType DEF Purposes
<1>2. CASE Refuse(p)
  BY <1>2, RefuseType
<1> QED BY <1>1, <1>2 DEF OnError

LEMMA AnyFile == (CHOOSE f \in Files : TRUE) \in Files
BY RecoveryAssumption DEF RecoveryAssumption

\* What a call writes is a content.
LEMMA NewType ==
  ASSUME CallsOK, NEW p \in Procs, pc[p] # "idle"
  PROVE  New(p) \in Contents /\ Orig(p) \in Faulty /\ Target(p) \in Files
BY RecoveryAssumption DEF RecoveryAssumption, CallsOK, Job, New, Orig, Target, Faulty

LEMMA SessionOfType ==
  ASSUME CallsOK, NEW p \in Procs, pc[p] # "idle", NEW st \in Statuses
  PROVE  /\ SessionOf(p, st) \in [status : Statuses, token : Tokens \cup {NoToken},
                                  file : Files, orig : Faulty \cup {NoContent}]
         /\ SessionOf(p, st).orig \in Faulty
<1>1. Orig(p) \in Faulty /\ Target(p) \in Files
  BY NewType
<1>2. job[p].token \in Tokens \cup {NoToken}
  BY DEF CallsOK, Job
<1> QED BY <1>1, <1>2 DEF SessionOf

LEMMA WriteFailsType ==
  ASSUME fails \in [Procs -> 0..MaxFails], NEW p \in Procs, WriteFails(p)
  PROVE  fails' \in [Procs -> 0..MaxFails]
BY RecoveryAssumption DEF RecoveryAssumption, WriteFails

LEMMA TypeInit == Init => TypeOK
<1> SUFFICES ASSUME Init PROVE TypeOK
  OBVIOUS
<1>1. StoreOK
  BY AnyFile DEF Init, StoreOK, Writers, NoSession, Statuses
<1>2. TallyOK
  BY RecoveryAssumption DEF RecoveryAssumption, Init, TallyOK
<1>3. CallsOK
  BY AnyFile DEF Init, CallsOK, Job, Unminted, Steps, Purposes
<1> QED BY <1>1, <1>2, <1>3, TypeParts

(***************************************************************************)
(* How the control of a call moves: the other calls stay where they are,   *)
(* and an error leads to the best-effort restore or ends the call.         *)
(***************************************************************************)
LEMMA Frame ==
  ASSUME CallsOK, NEW p \in Procs,
         Step(p) \/ Rollback(p) \/ Crash(p) \/ \E t \in Tokens : Apply(p, t)
  PROVE  \A q \in Procs : q # p => pc'[q] = pc[q] /\ job'[q] = job[q]
<1> DEFINE Kept == \A q \in Procs : q # p => pc'[q] = pc[q] /\ job'[q] = job[q]
<1>1. (UNCHANGED job /\ \E to \in Steps : Goto(p, to)) => Kept
  BY DEF Goto, CallsOK
<1>2. Refuse(p) => Kept
  BY DEF Refuse, Goto, CallsOK
<1>3. \A w \in Purposes : Restore(p, w) => Kept
  BY DEF Restore, Goto, CallsOK
<1>4. OnError(p) => Kept
  BY <1>2, <1>3 DEF OnError, Purposes
<1>5. Rollback(p) \/ (\E t \in Tokens : Apply(p, t)) => Kept
  BY DEF Rollback, Apply, Goto, CallsOK
<1> HIDE DEF Kept
<1>6. CheckToken(p) \/ OpenLive(p) \/ Backup(p) => Kept
  BY <1>1, <1>2 DEF CheckToken, OpenLive, Backup, Steps
<1>7. Reread(p) \/ Check(p) \/ Rename(p) => Kept
  BY <1>1, <1>4 DEF Reread, Check, Rename, Steps
<1>8. PostHash(p) \/ Save(p) \/ Commit(p) => Kept
  BY <1>1, <1>4 DEF PostHash, Save, Commit, Steps
<1>9. Verify(p) \/ Crash(p) => Kept
  BY <1>1, <1>3 DEF Verify, Crash, Steps, Purposes
<1> QED BY <1>5, <1>6, <1>7, <1>8, <1>9 DEF Step, Kept

Undoing(p) ==
  /\ job[p].what \in {"repair", "restore"}
  /\ pc'[p] = "reread" /\ job'[p] = [job[p] EXCEPT !.what = "undo"]

LEMMA OnErrorMoves ==
  ASSUME CallsOK, NEW p \in Procs, OnError(p)
  PROVE  Undoing(p) \/ (pc'[p] = "idle" /\ job' = job)
BY DEF CallsOK, OnError, Undoing, Refuse, Restore, Goto

LEMMA PurposeInit == Init => Purpose
BY DEF Init, Purpose, Forward

LEMMA PurposeStep == CallsOK /\ Purpose /\ [Next]_vars => Purpose'
<1> SUFFICES ASSUME CallsOK, Purpose, [Next]_vars PROVE Purpose'
  OBVIOUS
<1> DEFINE Good(w, c) == /\ c \in Forward => w = "repair"
                         /\ c = "save" => w # "undo"
                         /\ c = "reread" => w # "repair"
<1>1. ASSUME NEW p \in Procs,
             Step(p) \/ Rollback(p) \/ Crash(p) \/ \E t \in Tokens : Apply(p, t)
      PROVE  Purpose'
  <2>1. \A q \in Procs : q # p => pc'[q] = pc[q] /\ job'[q] = job[q]
    BY <1>1, Frame
  <2>2. Good(job[p].what, pc[p])
    BY DEF Purpose
  <2>3. ASSUME Undoing(p) PROVE Good(job'[p].what, pc'[p])
    BY <2>3 DEF Undoing, CallsOK, Job, Forward
  <2>4. ASSUME pc'[p] = "idle" PROVE Good(job'[p].what, pc'[p])
    BY <2>4 DEF Forward
  <2>5. ASSUME OnError(p) PROVE Good(job'[p].what, pc'[p])
    BY <2>3, <2>4, <2>5, OnErrorMoves
  <2>6. Good(job'[p].what, pc'[p])
    <3>1. CASE Rollback(p) \/ Crash(p) \/ \E t \in Tokens : Apply(p, t)
      BY <3>1 DEF Rollback, Crash, Apply, Goto, CallsOK, Job, Forward
    <3>2. CASE CheckToken(p) \/ OpenLive(p) \/ Backup(p)
      BY <3>2, <2>2 DEF CheckToken, OpenLive, Backup, Refuse, Goto, CallsOK, Forward
    <3>3. CASE Reread(p) \/ Check(p) \/ Rename(p)
      BY <3>3, <2>5 DEF Reread, Check, Rename, Goto, CallsOK, Forward
    <3>4. CASE PostHash(p) \/ Save(p) \/ Commit(p)
      BY <3>4, <2>5 DEF PostHash, Save, Commit, Goto, CallsOK, Forward
    <3>5. CASE Verify(p)
      BY <3>5, <2>2 DEF Verify, Restore, Goto, CallsOK, Job, Forward
    <3> QED BY <1>1, <3>1, <3>2, <3>3, <3>4, <3>5 DEF Step
  <2> HIDE DEF Good
  <2>7. \A q \in Procs : Good(job'[q].what, pc'[q])
    <3>1. \A q \in Procs : Good(job[q].what, pc[q])
      BY DEF Good, Purpose
    <3> QED BY <2>1, <2>6, <3>1
  <2> QED BY <2>7 DEF Good, Purpose
<1>2. ASSUME UNCHANGED << pc, job >> PROVE Purpose'
  BY <1>2 DEF Purpose
<1> QED
  BY <1>1, <1>2 DEF Next, vars, Preview, Expire, Edit

LEMMA TypeStep == TypeOK /\ Purpose /\ [Next]_vars => TypeOK'
<1> SUFFICES ASSUME StoreOK, TallyOK, CallsOK, Purpose, [Next]_vars
             PROVE  StoreOK' /\ TallyOK' /\ CallsOK'
  BY TypeParts DEF TypeOK, StoreOK, TallyOK, CallsOK, Job, Orig, Faulty, Binding, Unminted
<1> USE RecoveryAssumption
<1>1. ASSUME NEW t \in Tokens, Preview(t) PROVE StoreOK' /\ TallyOK' /\ CallsOK'
  <2>1. tokens' \in [Tokens -> Binding \cup {Unminted}]
    BY <1>1 DEF Preview, TallyOK, Binding
  <2> QED BY <1>1, <2>1 DEF Preview, StoreOK, TallyOK, CallsOK, Orig
<1>2. ASSUME NEW t \in Tokens, Expire(t) PROVE StoreOK' /\ TallyOK' /\ CallsOK'
  <2>1. tokens[t] \in Binding
    BY <1>2 DEF Expire, TallyOK, Unminted
  <2>2. [tokens[t] EXCEPT !.fresh = FALSE] \in Binding
    BY <2>1 DEF Binding
  <2>3. tokens' \in [Tokens -> Binding \cup {Unminted}]
    BY <1>2, <2>2 DEF Expire, TallyOK
  <2> QED BY <1>2, <2>3 DEF Expire, StoreOK, TallyOK, CallsOK, Orig
<1>3. ASSUME NEW p \in Procs, NEW t \in Tokens, Apply(p, t)
      PROVE  StoreOK' /\ TallyOK' /\ CallsOK'
  <2>1. tokens[t] \in Binding
    BY <1>3 DEF Apply, Minted, TallyOK, Unminted
  <2>2. tokens[t].file \in Files /\ tokens[t].orig \in Faulty
    BY <2>1 DEF Binding
  <2>3. CallsOK'
    BY <1>3, <2>2 DEF Apply, CallsOK, Job, Goto, Steps, Purposes, Orig
  <2>4. fails' \in [Procs -> 0..MaxFails]
    BY <1>3 DEF Apply, TallyOK, RecoveryAssumption
  <2> QED BY <1>3, <2>3, <2>4 DEF Apply, StoreOK, TallyOK
<1>4. ASSUME NEW p \in Procs, Rollback(p) PROVE StoreOK' /\ TallyOK' /\ CallsOK'
  <2>1. session.token \in Tokens \cup {NoToken} /\ session.file \in Files
        /\ session.orig \in Faulty
    BY <1>4 DEF Rollback, StoreOK
  <2>2. CallsOK'
    BY <1>4, <2>1 DEF Rollback, CallsOK, Job, Goto, Steps, Purposes, Orig
  <2>3. fails' \in [Procs -> 0..MaxFails]
    BY <1>4 DEF Rollback, TallyOK, RecoveryAssumption
  <2> QED BY <1>4, <2>2, <2>3 DEF Rollback, StoreOK, TallyOK
<1>5. ASSUME NEW p \in Procs, CheckToken(p) PROVE StoreOK' /\ TallyOK' /\ CallsOK'
  <2>1. CallsOK'
    BY <1>5, RefuseType, GotoType DEF CheckToken, Steps
  <2> QED BY <1>5, <2>1 DEF CheckToken, StoreOK, TallyOK
<1>6. ASSUME NEW p \in Procs, OpenLive(p) PROVE StoreOK' /\ TallyOK' /\ CallsOK'
  <2>1. CallsOK'
    BY <1>6, RefuseType, GotoType DEF OpenLive, Steps
  <2> QED BY <1>6, <2>1 DEF OpenLive, StoreOK, TallyOK
<1>7. ASSUME NEW p \in Procs, Backup(p) PROVE StoreOK' /\ TallyOK' /\ CallsOK'
  <2>1. CallsOK'
    BY <1>7, RefuseType, GotoType DEF Backup, Steps
  <2>2. fails' \in [Procs -> 0..MaxFails]
    BY <1>7, WriteFailsType DEF Backup, TallyOK
  <2>3. Orig(p) \in Faulty /\ pc[p] # "idle"
    BY <1>7, NewType DEF Backup
  <2>4. backup' \in [Files -> Faulty \cup {NoContent}]
    BY <1>7, <2>3 DEF Backup, Backed, StoreOK
  <2> QED BY <1>7, <2>1, <2>2, <2>4 DEF Backup, StoreOK, TallyOK
<1>8. ASSUME NEW p \in Procs, Reread(p) PROVE StoreOK' /\ TallyOK' /\ CallsOK'
  <2>1. CallsOK'
    BY <1>8, OnErrorType, GotoType DEF Reread, Steps
  <2> QED BY <1>8, <2>1 DEF Reread, StoreOK, TallyOK
<1>9. ASSUME NEW p \in Procs, Check(p) PROVE StoreOK' /\ TallyOK' /\ CallsOK'
  <2>1. CallsOK'
    BY <1>9, OnErrorType, GotoType DEF Check, Steps
  <2> QED BY <1>9, <2>1 DEF Check, StoreOK, TallyOK
<1>10. ASSUME NEW p \in Procs, Rename(p) PROVE StoreOK' /\ TallyOK' /\ CallsOK'
  <2>1. CallsOK'
    BY <1>10, OnErrorType, GotoType DEF Rename, Steps
  <2>2. fails' \in [Procs -> 0..MaxFails]
    BY <1>10, WriteFailsType DEF Rename, TallyOK
  <2>3. New(p) \in Contents
    BY <1>10, NewType DEF Rename
  <2>4. file' \in [Files -> [content : Contents, by : Writers]]
    BY <1>10, <2>3 DEF Rename, StoreOK, Writers
  <2>5. held' \in [Procs -> BOOLEAN]
    <3>1. CASE held' = Displaced(Target(p))
      BY <3>1, Zenon DEF Displaced, TallyOK
    <3>2. CASE held' = held
      BY <3>2 DEF TallyOK
    <3> QED BY <1>10, <3>1, <3>2 DEF Rename
  <2> QED BY <1>10, <2>1, <2>2, <2>4, <2>5 DEF Rename, StoreOK, TallyOK
<1>11. ASSUME NEW p \in Procs, PostHash(p) PROVE StoreOK' /\ TallyOK' /\ CallsOK'
  <2>1. CallsOK'
    BY <1>11, OnErrorType, GotoType DEF PostHash, Steps
  <2> QED BY <1>11, <2>1 DEF PostHash, StoreOK, TallyOK
<1>12. ASSUME NEW p \in Procs, Save(p) PROVE StoreOK' /\ TallyOK' /\ CallsOK'
  <2>1. CallsOK'
    BY <1>12, OnErrorType, GotoType DEF Save, Steps
  <2>2. fails' \in [Procs -> 0..MaxFails]
    BY <1>12, WriteFailsType DEF Save, TallyOK
  <2>3. job[p].what \in {"repair", "restore", "rollback"}
    BY <1>12 DEF Save, Purpose, CallsOK, Job, Purposes
  <2>4. StatusFor(job[p].what) \in Statuses
    BY <2>3 DEF StatusFor, Statuses
  <2>5. StoreOK'
    BY <1>12, <2>4, SessionOfType DEF Save, StoreOK
  <2> QED BY <1>12, <2>1, <2>2, <2>5 DEF Save, TallyOK
<1>13. ASSUME NEW p \in Procs, Verify(p) PROVE StoreOK' /\ TallyOK' /\ CallsOK'
  <2>1. CallsOK'
    BY <1>13, RestoreType, GotoType DEF Verify, Steps, Purposes
  <2> QED BY <1>13, <2>1 DEF Verify, StoreOK, TallyOK
<1>14. ASSUME NEW p \in Procs, Commit(p) PROVE StoreOK' /\ TallyOK' /\ CallsOK'
  <2>1. CallsOK'
    BY <1>14, OnErrorType, GotoType DEF Commit, Steps
  <2>2. fails' \in [Procs -> 0..MaxFails]
    BY <1>14, WriteFailsType DEF Commit, TallyOK
  <2>3. "resolved_verified" \in Statuses
    BY DEF Statuses
  <2>4. session' = session \/ session' = SessionOf(p, "resolved_verified")
    BY <1>14 DEF Commit, Committed
  <2>5. file' \in [Files -> [content : Contents, by : Writers]]
    BY <1>14 DEF Commit, StoreOK, Writers
  <2>6. StoreOK'
    BY <1>14, <2>3, <2>4, <2>5, SessionOfType DEF Commit, StoreOK
  <2>7. applied' \in [Tokens -> Nat]
    BY <1>14 DEF Commit, TallyOK
  <2> QED BY <1>14, <2>1, <2>2, <2>6, <2>7 DEF Commit, TallyOK
<1>15. ASSUME NEW p \in Procs, Crash(p) PROVE StoreOK' /\ TallyOK' /\ CallsOK'
  <2>1. CallsOK'
    BY <1>15, RefuseType DEF Crash, Refuse
  <2> QED BY <1>15, <2>1 DEF Crash, StoreOK, TallyOK, RecoveryAssumption
<1>16. ASSUME NEW f \in Files, NEW c \in Contents, Edit(f, c)
       PROVE  StoreOK' /\ TallyOK' /\ CallsOK'
  <2>1. file' \in [Files -> [content : Contents, by : Writers]]
    BY <1>16 DEF Edit, StoreOK, Writers
  <2>2. held' \in [Procs -> BOOLEAN]
    <3>1. CASE held' = Displaced(f)
      BY <3>1, Zenon DEF Displaced, TallyOK
    <3>2. CASE held' = held
      BY <3>2 DEF TallyOK
    <3> QED BY <1>16, <3>1, <3>2 DEF Edit
  <2> QED BY <1>16, <2>1, <2>2 DEF Edit, StoreOK, TallyOK, CallsOK, Orig
<1>17. ASSUME UNCHANGED vars PROVE StoreOK' /\ TallyOK' /\ CallsOK'
  BY <1>17 DEF vars, StoreOK, TallyOK, CallsOK, Orig
<1> QED
  BY <1>1, <1>2, <1>3, <1>4, <1>5, <1>6, <1>7, <1>8, <1>9, <1>10, <1>11, <1>12,
     <1>13, <1>14, <1>15, <1>16, <1>17 DEF Next, Step

(***************************************************************************)
(* Every state is well typed; in particular a call that runs works with a  *)
(* faulty original, and a session that is there names one.                 *)
(***************************************************************************)
THEOREM TypeCorrect == Spec => []TypeOK
<1>1. Init => TypeOK /\ Purpose
  BY TypeInit, PurposeInit
<1>2. TypeOK /\ Purpose /\ [Next]_vars => TypeOK' /\ Purpose'
  BY TypeStep, PurposeStep, TypeParts
<1> QED BY <1>1, <1>2, PTL DEF Spec

-----------------------------------------------------------------------------
(***************************************************************************)
(* From here on calls do not overlap, and no repair leaves a fault behind. *)
(***************************************************************************)
NoChain == \A c \in Faulty : Fix[c] \notin Faulty

Acts(p) == Step(p) \/ Rollback(p) \/ Crash(p) \/ \E t \in Tokens : Apply(p, t)

LEMMA StepRuns == \A p \in Procs : Step(p) \/ Crash(p) => pc[p] # "idle"
BY DEF Step, Crash, CheckToken, OpenLive, Backup, Reread, Check, Rename, PostHash,
       Save, Verify, Commit

\* While one call acts, the others are idle and stay so.
LEMMA Alone ==
  ASSUME ~Concurrent, CallsOK, OneCall, NEW p \in Procs, Acts(p)
  PROVE  \A q \in Procs : q # p => pc[q] = "idle" /\ pc'[q] = "idle" /\ job'[q] = job[q]
<1>1. \A q \in Procs : q # p => pc'[q] = pc[q] /\ job'[q] = job[q]
  BY Frame DEF Acts
<1>2. \A q \in Procs : q # p => pc[q] = "idle"
  <2>1. CASE Step(p) \/ Crash(p)
    BY <2>1, StepRuns DEF OneCall, Running
  <2>2. CASE Rollback(p) \/ \E t \in Tokens : Apply(p, t)
    BY <2>2 DEF Rollback, Apply, MayStart, AllIdle
  <2> QED BY <2>1, <2>2 DEF Acts
<1> QED BY <1>1, <1>2

\* A step of a call changes neither its file nor its original bytes.
LEMMA StepKeepsJob ==
  ASSUME CallsOK, NEW p \in Procs, Step(p)
  PROVE  Target(p)' = Target(p) /\ Orig(p)' = Orig(p)
<1> DEFINE Kept == Target(p)' = Target(p) /\ Orig(p)' = Orig(p)
<1>1. job' = job => Kept
  BY DEF Target, Orig
<1>2. \A w \in Purposes : Restore(p, w) => Kept
  BY DEF CallsOK, Job, Restore, Target, Orig
<1>3. Refuse(p) \/ OnError(p) => Kept
  BY <1>1, <1>2 DEF Refuse, OnError, Purposes
<1> HIDE DEF Kept
<1>4. CheckToken(p) \/ OpenLive(p) \/ Backup(p) => Kept
  BY <1>1, <1>3 DEF CheckToken, OpenLive, Backup
<1>5. Reread(p) \/ Check(p) \/ Rename(p) => Kept
  BY <1>1, <1>3 DEF Reread, Check, Rename
<1>6. PostHash(p) \/ Save(p) \/ Commit(p) => Kept
  BY <1>1, <1>3 DEF PostHash, Save, Commit
<1>7. Verify(p) => Kept
  BY <1>1, <1>2 DEF Verify, Purposes
<1> QED BY <1>4, <1>5, <1>6, <1>7 DEF Step, Kept

LEMMA OneCallStep ==
  ASSUME ~Concurrent, CallsOK, OneCall, [Next]_vars
  PROVE  OneCall'
<1>1. ASSUME NEW p \in Procs, Acts(p) PROVE OneCall'
  BY <1>1, Alone DEF OneCall, Running
<1>2. ASSUME UNCHANGED pc PROVE OneCall'
  BY <1>2 DEF OneCall, Running
<1> QED BY <1>1, <1>2 DEF Next, Acts, vars, Preview, Expire, Edit

LEMMA BackedUpStep ==
  ASSUME ~Concurrent, CallsOK, StoreOK, Purpose, OneCall, BackedUp, [Next]_vars
  PROVE  BackedUp'
<1>1. ASSUME NEW p \in Procs, Acts(p) PROVE BackedUp'
  <2>1. \A q \in Procs : q # p => ~PastBackup(q)'
    BY <1>1, Alone DEF PastBackup
  <2>2. PastBackup(p)' => backup'[Target(p)'] = Orig(p)'
    <3>1. CASE Rollback(p) \/ Crash(p) \/ \E t \in Tokens : Apply(p, t)
      BY <3>1 DEF Rollback, Crash, Apply, Goto, CallsOK, PastBackup
    <3>2. CASE Step(p)
      <4>1. Target(p)' = Target(p) /\ Orig(p)' = Orig(p)
        BY <3>2, StepKeepsJob
      <4>2. CASE CheckToken(p) \/ OpenLive(p)
        BY <4>2 DEF CheckToken, OpenLive, Refuse, Goto, CallsOK, PastBackup
      <4>3. CASE Backup(p)
        <5>1. Target(p) \in Files
          BY DEF CallsOK, Job, Target
        <5>2. CASE backup' = Backed(p)
          BY <4>1, <5>1, <5>2 DEF Backed, StoreOK
        <5>3. CASE Refuse(p)
          BY <5>3 DEF Refuse, Goto, CallsOK, PastBackup
        <5> QED BY <4>3, <5>2, <5>3 DEF Backup
      <4>4. CASE Reread(p)
        <5>1. CASE backup[Target(p)] = Orig(p)
          BY <4>1, <4>4, <5>1 DEF Reread
        <5>2. CASE OnError(p)
          <6>1. job[p].what \in {"repair", "restore"} => PastBackup(p)
            BY <4>4 DEF Reread, PastBackup
          <6>2. pc'[p] = "idle" => ~PastBackup(p)'
            BY DEF PastBackup
          <6> QED BY <4>1, <4>4, <5>2, <6>1, <6>2, OnErrorMoves
                  DEF Reread, BackedUp, Undoing
        <5> QED BY <4>4, <5>1, <5>2 DEF Reread
      <4>5. CASE Check(p) \/ Rename(p) \/ PostHash(p) \/ Save(p) \/ Verify(p) \/ Commit(p)
        <5>1. PastBackup(p) /\ backup' = backup
          BY <4>5 DEF Check, Rename, PostHash, Save, Verify, Commit, PastBackup
        <5> QED BY <4>1, <5>1 DEF BackedUp
      <4> QED BY <3>2, <4>2, <4>3, <4>4, <4>5 DEF Step
    <3> QED BY <1>1, <3>1, <3>2 DEF Acts
  <2> QED BY <2>1, <2>2 DEF BackedUp
<1>2. ASSUME UNCHANGED << pc, job, backup >> PROVE BackedUp'
  BY <1>2 DEF BackedUp, PastBackup, Target, Orig
<1> QED BY <1>1, <1>2 DEF Next, Acts, vars, Preview, Expire, Edit

\* What a faulty file holds was not put there by a repair.
LEMMA FaultyIsUnrepaired ==
  ASSUME NoChain, Undoable, NEW f \in Files, file[f].content \in Faulty
  PROVE  ~Repaired(f)
BY DEF NoChain, Undoable

LEMMA UntouchedStep ==
  ASSUME ~Concurrent, NoChain, CallsOK, StoreOK, Purpose, OneCall, Undoable, Untouched,
         [Next]_vars
  PROVE  Untouched'
<1> DEFINE At(c, w) == c \in {"backup", "check", "rename"} /\ w = "repair"
<1>1. ASSUME NEW p \in Procs, Acts(p) PROVE Untouched'
  <2>1. \A q \in Procs : q # p => pc'[q] = "idle"
    BY <1>1, Alone
  <2>2. At(pc'[p], job'[p].what) => ~Repaired(Target(p))'
    <3>1. CASE Rollback(p) \/ Crash(p) \/ \E t \in Tokens : Apply(p, t)
      BY <3>1 DEF Rollback, Crash, Apply, Goto, CallsOK
    <3>2. CASE Step(p)
      <4>1. Target(p)' = Target(p) /\ Target(p) \in Files
        BY <3>2, StepKeepsJob DEF CallsOK, Job, Target
      <4>2. CASE OpenLive(p)
        <5>1. CASE file[Target(p)].content = Orig(p)
          <6>1. Orig(p) \in Faulty
            BY <4>2, NewType DEF OpenLive
          <6>2. ~Repaired(Target(p))
            BY <4>1, <5>1, <6>1, FaultyIsUnrepaired
          <6> QED BY <4>1, <4>2, <6>2 DEF OpenLive, Repaired
        <5>2. CASE Refuse(p)
          BY <5>2 DEF Refuse, Goto, CallsOK
        <5> QED BY <4>2, <5>1, <5>2 DEF OpenLive
      <4>3. CASE Backup(p) \/ Check(p)
        <5>1. pc[p] \in {"backup", "check"} /\ file' = file
          BY <4>3 DEF Backup, Check
        <5>2. job'[p].what = "repair" => job[p].what = "repair"
          BY <4>3, OnErrorMoves DEF Backup, Check, Refuse, Undoing, CallsOK, Job
        <5> QED BY <4>1, <5>1, <5>2 DEF Untouched, Repaired
      <4>4. CASE Reread(p)
        <5>1. job[p].what # "repair"
          BY <4>4 DEF Reread, Purpose
        <5>2. OnError(p) => pc'[p] \in {"reread", "idle"}
          BY OnErrorMoves DEF Undoing
        <5> QED BY <4>4, <5>1, <5>2 DEF Reread
      <4>5. CASE CheckToken(p) \/ Rename(p) \/ PostHash(p) \/ Save(p) \/ Verify(p)
                 \/ Commit(p)
        <5>1. OnError(p) => pc'[p] \in {"reread", "idle"}
          BY OnErrorMoves DEF Undoing
        <5> QED BY <4>5, <5>1 DEF CheckToken, Rename, PostHash, Save, Verify, Commit,
                                  Refuse, Restore, Goto, CallsOK
      <4> QED BY <3>2, <4>2, <4>3, <4>4, <4>5 DEF Step
    <3> QED BY <1>1, <3>1, <3>2 DEF Acts
  <2> QED BY <2>1, <2>2 DEF Untouched
<1>2. ASSUME NEW f \in Files, NEW c \in Contents, Edit(f, c) PROVE Untouched'
  <2>1. \A g \in Files : ~Repaired(g) => ~Repaired(g)'
    BY <1>2 DEF Edit, Repaired, StoreOK
  <2>2. \A q \in Procs : Target(q) \in Files
    BY DEF CallsOK, Job, Target
  <2> QED BY <1>2, <2>1, <2>2 DEF Edit, Untouched, Target
<1>3. ASSUME UNCHANGED << pc, job, file >> PROVE Untouched'
  BY <1>3 DEF Untouched, Target, Repaired
<1> QED BY <1>1, <1>2, <1>3 DEF Next, Acts, vars, Preview, Expire

LEMMA UndoableStep ==
  ASSUME CallsOK, StoreOK, Purpose, BackedUp, Untouched, Undoable, [Next]_vars
  PROVE  Undoable'
<1> DEFINE Same == \A f \in Files :
             /\ file'[f].content = file[f].content
             /\ Repaired(f)' => Repaired(f)
<1>1. ASSUME UNCHANGED file PROVE Same
  BY <1>1 DEF Repaired
<1>2. ASSUME Same, UNCHANGED backup PROVE Undoable'
  BY <1>2 DEF Undoable, Repaired
<1>3. ASSUME NEW p \in Procs, Step(p) PROVE Undoable'
  <2> HIDE DEF Same
  <2>1. Target(p) \in Files /\ Orig(p) \in Faulty
    BY <1>3, StepRuns, NewType
  <2>2. CASE Backup(p)
    <3>1. ~Repaired(Target(p))
      BY <2>2 DEF Backup, Purpose, Forward, Untouched
    <3>2. backup' = backup \/ backup' = [backup EXCEPT ![Target(p)] = Orig(p)]
      BY <2>2 DEF Backup, Backed
    <3> QED BY <2>1, <2>2, <3>1, <3>2 DEF Backup, Undoable, Repaired, StoreOK
  <2>3. CASE Rename(p)
    <3>1. CASE UNCHANGED file
      BY <1>1, <1>2, <2>3, <3>1 DEF Rename
    <3>2. CASE job[p].what = "repair" /\ file' # file
      <4>1. backup[Target(p)] = Orig(p) /\ New(p) = Fix[Orig(p)]
        BY <2>3, <3>2 DEF Rename, BackedUp, PastBackup, New
      <4>2. file' = [file EXCEPT ![Target(p)] = [content |-> New(p), by |-> "pending"]]
        BY <2>3, <3>2 DEF Rename
      <4> QED BY <2>1, <2>3, <4>1, <4>2 DEF Rename, Undoable, Repaired, StoreOK
    <3>3. CASE job[p].what # "repair" /\ file' # file
      <4>1. file' = [file EXCEPT ![Target(p)] = [content |-> New(p), by |-> "restored"]]
        BY <2>3, <3>3 DEF Rename
      <4> QED BY <2>1, <2>3, <4>1 DEF Rename, Undoable, Repaired, StoreOK
    <3> QED BY <3>1, <3>2, <3>3
  <2>4. CASE Commit(p)
    <3>1. CASE UNCHANGED file
      BY <1>1, <1>2, <2>4, <3>1 DEF Commit
    <3>2. CASE file' = [file EXCEPT ![Target(p)].by = IF @ = "pending" THEN "verified" ELSE @]
      <4>1. Same
        BY <2>1, <3>2 DEF Same, Repaired, StoreOK
      <4> QED BY <1>2, <2>4, <4>1 DEF Commit
    <3> QED BY <2>4, <3>1, <3>2 DEF Commit
  <2>5. CASE CheckToken(p) \/ OpenLive(p) \/ Reread(p) \/ Check(p) \/ PostHash(p)
             \/ Save(p) \/ Verify(p)
    BY <1>1, <1>2, <2>5 DEF CheckToken, OpenLive, Reread, Check, PostHash, Save, Verify
  <2> QED BY <1>3, <2>2, <2>3, <2>4, <2>5 DEF Step
<1>4. ASSUME NEW f \in Files, NEW c \in Contents, Edit(f, c) PROVE Undoable'
  BY <1>4 DEF Edit, Undoable, Repaired, StoreOK
<1>5. ASSUME UNCHANGED << file, backup >> PROVE Undoable'
  BY <1>1, <1>2, <1>5
<1> QED BY <1>3, <1>4, <1>5
        DEF Next, vars, Preview, Expire, Apply, Rollback, Crash

UndoInv == TypeOK /\ Purpose /\ OneCall /\ BackedUp /\ Untouched /\ Undoable

LEMMA UndoInit == Init => UndoInv
<1>1. Init => TypeOK /\ Purpose
  BY TypeInit, PurposeInit
<1>2. Init => OneCall /\ BackedUp /\ Untouched
  BY DEF Init, OneCall, Running, BackedUp, PastBackup, Untouched
<1>3. Init => Undoable
  BY DEF Init, Undoable, Repaired
<1> QED BY <1>1, <1>2, <1>3 DEF UndoInv

LEMMA UndoStep ==
  ASSUME ~Concurrent, NoChain
  PROVE  UndoInv /\ [Next]_vars => UndoInv'
<1> SUFFICES ASSUME UndoInv, [Next]_vars PROVE UndoInv'
  OBVIOUS
<1>1. TypeOK /\ StoreOK /\ CallsOK /\ Purpose
  BY TypeParts DEF UndoInv
<1>2. TypeOK' /\ Purpose'
  BY <1>1, TypeStep, PurposeStep
<1>3. OneCall' /\ BackedUp'
  BY <1>1, OneCallStep, BackedUpStep DEF UndoInv
<1>4. Untouched' /\ Undoable'
  BY <1>1, UntouchedStep, UndoableStep DEF UndoInv
<1> QED BY <1>2, <1>3, <1>4 DEF UndoInv

(***************************************************************************)
(* createVerifiedBackup: whatever is edited, fails or dies, as long as the *)
(* bytes of a repair are in a file, its backup holds what they replaced.   *)
(***************************************************************************)
THEOREM RepairsAreUndoable ==
  ASSUME ~Concurrent, NoChain
  PROVE  Spec => []Undoable
<1>1. UndoInv => Undoable
  BY DEF UndoInv
<1> QED BY <1>1, UndoInit, UndoStep, PTL DEF Spec

-----------------------------------------------------------------------------
\* A pending repair belongs to the call that acts.
LEMMA PendingIsOwn ==
  ASSUME ~Concurrent, CallsOK, OneCall, Accounted, crashes = 0,
         NEW p \in Procs, Acts(p), NEW f \in Files, file[f].by = "pending"
  PROVE  Target(p) = f /\ Accountable(p)
<1>1. PICK q \in Procs : Running(q) /\ Target(q) = f /\ Accountable(q)
  BY DEF Accounted
<1>2. q = p
  BY <1>1, Alone DEF Running
<1> QED BY <1>1, <1>2

\* An error while a repair is pending is the last one there can be.
LEMMA LastFailure ==
  ASSUME MaxFails <= 1, TallyOK, CallsOK, NEW p \in Procs, WriteFails(p), OnError(p),
         Accountable(p)
  PROVE  Accountable(p)'
<1>1. MaxFails \in Nat /\ fails[p] \in 0..MaxFails
  BY RecoveryAssumption DEF RecoveryAssumption, TallyOK
<1>2. fails'[p] >= MaxFails
  BY <1>1 DEF WriteFails, TallyOK
<1>3. job[p].what \in {"repair", "restore"}
  BY <1>1 DEF Accountable, WriteFails
<1>4. pc'[p] = "reread" /\ job'[p] = [job[p] EXCEPT !.what = "undo"]
  BY <1>3 DEF OnError, Restore, Goto, CallsOK
<1> QED BY <1>2, <1>4 DEF Accountable, CallsOK, Job

LEMMA AccountedStep ==
  ASSUME ~Concurrent, MaxFails <= 1, TallyOK, StoreOK, CallsOK, Purpose, OneCall,
         BackedUp, Undoable, Accounted, [Next]_vars
  PROVE  Accounted'
<1>1. ASSUME NEW p \in Procs, Acts(p) PROVE Accounted'
  <2> SUFFICES ASSUME crashes' = 0, NEW f \in Files, file'[f].by = "pending"
               PROVE  Target(p)' = f /\ Accountable(p)'
    BY DEF Accounted, Accountable, Running
  <2>1. crashes = 0 /\ ~Crash(p)
    <3>1. crashes \in Nat
      BY RecoveryAssumption DEF RecoveryAssumption, TallyOK
    <3>2. ~Crash(p)
      BY <3>1 DEF Crash
    <3> QED BY <1>1, <3>2 DEF Acts, Step, Rollback, Apply, CheckToken, OpenLive, Backup,
              Reread, Check, Rename, PostHash, Save, Verify, Commit
  <2>2. file[f].by = "pending" => Target(p) = f /\ Accountable(p)
    BY <1>1, <2>1, PendingIsOwn
  <2>3. CASE Rollback(p) \/ \E t \in Tokens : Apply(p, t)
    <3>1. pc[p] = "idle" /\ file' = file
      BY <2>3 DEF Rollback, Apply, MayStart
    <3> QED BY <2>2, <3>1 DEF Accountable
  <2>4. CASE Step(p)
    <3>1. Target(p)' = Target(p) /\ Target(p) \in Files
      BY <2>4, StepKeepsJob DEF CallsOK, Job, Target
    <3>2. CASE Rename(p)
      <4> DEFINE Done(by) ==
            /\ file' = [file EXCEPT ![Target(p)] = [content |-> New(p), by |-> by]]
            /\ pc[p] = "rename" /\ pc'[p] = "posthash" /\ job' = job
      <4>1. CASE WriteFails(p) /\ OnError(p) /\ UNCHANGED file
        BY <2>2, <3>1, <4>1, LastFailure
      <4>2. CASE job[p].what = "repair" /\ Done("pending")
        <5>1. \A g \in Files : g # Target(p) => file'[g] = file[g]
          BY <4>2 DEF StoreOK
        <5>2. f = Target(p)
          BY <2>2, <5>1
        <5> QED BY <3>1, <4>2, <5>2 DEF Accountable
      <4>3. CASE Done("restored")
        <5>1. file'[Target(p)].by = "restored"
          BY <3>1, <4>3 DEF StoreOK
        <5>2. \A g \in Files : g # Target(p) => file'[g] = file[g]
          BY <4>3 DEF StoreOK
        <5>3. f # Target(p)
          BY <5>1
        <5> QED BY <2>2, <5>2, <5>3
      <4> QED BY <3>2, <4>1, <4>2, <4>3 DEF Rename, Goto, CallsOK
    <3>3. CASE Commit(p)
      <4>1. CASE WriteFails(p) /\ OnError(p) /\ UNCHANGED file
        BY <2>2, <3>1, <4>1, LastFailure
      <4>2. CASE file' = [file EXCEPT ![Target(p)].by = IF @ = "pending" THEN "verified" ELSE @]
        <5>1. file'[Target(p)].by # "pending"
          BY <3>1, <4>2 DEF StoreOK
        <5>2. \A g \in Files : g # Target(p) => file'[g] = file[g]
          BY <4>2 DEF StoreOK
        <5> QED BY <2>2, <5>1, <5>2
      <4> QED BY <3>3, <4>1, <4>2 DEF Commit
    <3>4. ASSUME UNCHANGED file, ~Rename(p), ~Commit(p) PROVE Accountable(p)' /\ Target(p) = f
      <4>1. Target(p) = f /\ Accountable(p)
        BY <2>2, <3>4
      <4>2. CASE CheckToken(p) \/ OpenLive(p) \/ Backup(p)
        BY <4>1, <4>2 DEF CheckToken, OpenLive, Backup, Accountable
      <4>3. CASE Reread(p)
        <5>1. job[p].what \in {"restore", "undo"} /\ pc[p] = "reread"
          BY <4>1, <4>3 DEF Reread, Accountable
        <5>2. backup[Target(p)] = Orig(p)
          BY <5>1 DEF BackedUp, PastBackup
        <5>3. held'[p] /\ pc'[p] = "check" /\ job' = job /\ fails' = fails
          BY <4>3, <5>2 DEF Reread, Goto, CallsOK, TallyOK
        <5> QED BY <4>1, <5>1, <5>3 DEF Accountable
      <4>4. CASE Check(p)
        <5>1. job[p].what \in {"restore", "undo"} /\ held[p] /\ pc[p] = "check"
          BY <4>1, <4>4 DEF Check, Accountable
        <5>2. pc'[p] = "rename" /\ UNCHANGED << job, held, fails >>
          BY <4>4, <5>1 DEF Check, Goto, CallsOK
        <5> QED BY <4>1, <5>1, <5>2 DEF Accountable
      <4>5. CASE PostHash(p)
        <5>1. job[p].what = "repair" /\ pc[p] = "posthash"
          BY <4>1, <4>5 DEF PostHash, Accountable
        <5>2. backup[Target(p)] = Orig(p)
          BY <5>1 DEF BackedUp, PastBackup
        <5>3. file[f].by = "pending"
          BY <3>4
        <5>4. file[Target(p)].content = New(p)
          BY <3>1, <4>1, <5>1, <5>2, <5>3 DEF Undoable, Repaired, New
        <5>5. pc'[p] = "save" /\ job' = job
          BY <4>5, <5>1, <5>4 DEF PostHash, Goto, CallsOK
        <5> QED BY <4>1, <5>1, <5>5 DEF Accountable
      <4>6. CASE Save(p)
        <5>1. job[p].what = "repair" /\ pc[p] = "save"
          BY <4>1, <4>6 DEF Save, Accountable
        <5>2. CASE WriteFails(p) /\ OnError(p)
          BY <4>1, <5>2, LastFailure
        <5>3. CASE Goto(p, "verify") /\ UNCHANGED job
          BY <4>1, <5>1, <5>3 DEF Goto, CallsOK, Accountable
        <5> QED BY <4>1, <4>6, <5>1, <5>2, <5>3 DEF Save
      <4>7. CASE Verify(p)
        <5>1. job[p].what = "repair"
          BY <4>7 DEF Verify, Purpose, Forward
        <5>2. CASE Goto(p, "commit") /\ UNCHANGED job
          BY <4>1, <5>1, <5>2 DEF Goto, CallsOK, Accountable
        <5>3. CASE Restore(p, "restore")
          BY <4>1, <5>1, <5>3 DEF Restore, Goto, CallsOK, Job, Accountable
        <5> QED BY <4>1, <4>7, <5>2, <5>3 DEF Verify
      <4> QED BY <2>4, <3>4, <4>1, <4>2, <4>3, <4>4, <4>5, <4>6, <4>7 DEF Step
    <3>5. ~Rename(p) /\ ~Commit(p) => UNCHANGED file
      BY <2>4 DEF Step, CheckToken, OpenLive, Backup, Reread, Check, PostHash, Save, Verify
    <3> QED BY <3>1, <3>2, <3>3, <3>4, <3>5
  <2> QED BY <1>1, <2>1, <2>3, <2>4 DEF Acts
<1>2. ASSUME NEW f \in Files, NEW c \in Contents, Edit(f, c) PROVE Accounted'
  <2> SUFFICES ASSUME crashes' = 0, NEW g \in Files, file'[g].by = "pending"
               PROVE  \E p \in Procs : Running(p)' /\ Target(p)' = g /\ Accountable(p)'
    BY DEF Accounted
  <2>1. g # f /\ file[g].by = "pending" /\ crashes = 0
    BY <1>2 DEF Edit, StoreOK
  <2>2. PICK p \in Procs : Running(p) /\ Target(p) = g /\ Accountable(p)
    BY <2>1 DEF Accounted
  <2>3. held'[p] = held[p]
    <3>1. held[p] \in BOOLEAN /\ job[p].file # f
      BY <2>1, <2>2 DEF TallyOK, Target
    <3>2. CASE held' = Displaced(f)
      <4>1. held'[p] = (held[p] /\ job[p].file # f)
        BY <3>2, Zenon DEF Displaced
      <4> QED BY <3>1, <4>1, Zenon
    <3>3. CASE held' = held
      BY <3>3
    <3> QED BY <1>2, <3>2, <3>3 DEF Edit
  <2>4. Running(p)' /\ Target(p)' = g /\ Accountable(p)'
    BY <1>2, <2>2, <2>3 DEF Edit, Running, Target, Accountable
  <2> QED BY <2>4
<1>3. ASSUME UNCHANGED << pc, job, file, held, fails, crashes >> PROVE Accounted'
  BY <1>3 DEF Accounted, Running, Target, Accountable
<1> QED BY <1>1, <1>2, <1>3 DEF Next, Acts, vars, Preview, Expire

ApplyInv == UndoInv /\ Accounted

(***************************************************************************)
(* applyRepair's two restores: with at most one failing write in a call, a *)
(* call that ends was verified or leaves none of its bytes in the file.    *)
(***************************************************************************)
THEOREM ApplyIsAllOrNothing ==
  ASSUME ~Concurrent, NoChain, MaxFails <= 1
  PROVE  Spec => []AllOrNothing
<1>1. Init => ApplyInv
  BY UndoInit DEF ApplyInv, Init, Accounted
<1>2. ApplyInv /\ [Next]_vars => ApplyInv'
  <2> SUFFICES ASSUME ApplyInv, [Next]_vars PROVE ApplyInv'
    OBVIOUS
  <2>1. TallyOK /\ StoreOK /\ CallsOK
    BY TypeParts DEF ApplyInv, UndoInv
  <2> QED BY <2>1, UndoStep, AccountedStep DEF ApplyInv, UndoInv
<1>3. ApplyInv => AllOrNothing
  BY DEF ApplyInv, Accounted, AllOrNothing, AllIdle, Running
<1> QED BY <1>1, <1>2, <1>3, PTL DEF Spec

-----------------------------------------------------------------------------
OneFile == \A f, g \in Files : f = g

LEMMA VerifiedKeptStep ==
  ASSUME ~Concurrent, NoChain, CallsOK, StoreOK, Purpose, OneCall, Undoable,
         VerifiedKept, [Next]_vars
  PROVE  VerifiedKept'
<1> DEFINE Free(c, w) == \/ c \in {"idle", "token", "live"}
                         \/ w = "rollback" /\ c \notin {"posthash", "save"}
<1>1. ASSUME NEW p \in Procs, Acts(p) PROVE VerifiedKept'
  <2>1. \A q \in Procs : q # p => pc'[q] = "idle"
    BY <1>1, Alone
  <2>2. Free(pc'[p], job'[p].what) \/ file'[Target(p)'].by # "verified"
    <3>1. CASE Rollback(p) \/ Crash(p) \/ \E t \in Tokens : Apply(p, t)
      BY <3>1 DEF Rollback, Crash, Apply, Goto, CallsOK, Job
    <3>2. CASE Step(p)
      <4>1. Target(p)' = Target(p) /\ Target(p) \in Files
        BY <3>2, StepKeepsJob DEF CallsOK, Job, Target
      <4>2. Free(pc[p], job[p].what) \/ file[Target(p)].by # "verified"
        BY DEF VerifiedKept
      <4>3. CASE CheckToken(p)
        BY <4>3 DEF CheckToken, Refuse, Goto, CallsOK
      <4>4. CASE OpenLive(p)
        <5>1. CASE file[Target(p)].content = Orig(p)
          <6>1. Orig(p) \in Faulty
            BY <4>4, NewType DEF OpenLive
          <6>2. ~Repaired(Target(p))
            BY <4>1, <5>1, <6>1, FaultyIsUnrepaired
          <6> QED BY <4>1, <4>4, <6>2 DEF OpenLive, Repaired
        <5>2. CASE Refuse(p)
          BY <5>2 DEF Refuse, Goto, CallsOK
        <5> QED BY <4>4, <5>1, <5>2 DEF OpenLive
      <4>5. CASE Rename(p) /\ ~OnError(p)
        <5>1. file'[Target(p)].by # "verified"
          BY <4>1, <4>5 DEF Rename, StoreOK
        <5> QED BY <4>1, <5>1
      <4>6. CASE Commit(p)
        <5>1. job[p].what = "repair" /\ pc[p] = "commit"
          BY <4>6 DEF Commit, Purpose, Forward
        <5>2. CASE Goto(p, "idle")
          BY <5>2 DEF Goto, CallsOK
        <5>3. CASE UNCHANGED file
          BY <4>1, <4>2, <5>1, <5>3
        <5> QED BY <4>6, <5>2, <5>3 DEF Commit
      <4>7. CASE Reread(p) \/ Check(p) \/ PostHash(p) \/ (Rename(p) /\ OnError(p))
        <5>1. OnError(p) /\ Free(pc[p], job[p].what) => pc'[p] = "idle"
          <6>1. Free(pc[p], job[p].what) => job[p].what = "rollback"
            BY <4>7 DEF Reread, Check, PostHash, Rename
          <6> QED BY <6>1, OnErrorMoves DEF Undoing
        <5>2. Free(pc[p], job[p].what) => Free(pc'[p], job'[p].what)
          BY <4>7, <5>1 DEF Reread, Check, PostHash, Goto, CallsOK
        <5>3. file' = file \/ file'[Target(p)].by # "verified"
          BY <4>1, <4>7 DEF Reread, Check, PostHash, Rename, StoreOK
        <5> QED BY <4>1, <4>2, <5>2, <5>3
      <4>8. CASE Backup(p) \/ Save(p) \/ Verify(p)
        <5>1. file' = file
          BY <4>8 DEF Backup, Save, Verify
        <5>2. ~Free(pc[p], job[p].what)
          BY <4>8 DEF Backup, Save, Verify, Purpose, Forward
        <5> QED BY <4>1, <4>2, <5>1, <5>2
      <4> QED BY <3>2, <4>3, <4>4, <4>5, <4>6, <4>7, <4>8
              DEF Step
    <3> QED BY <1>1, <3>1, <3>2 DEF Acts
  <2> QED BY <2>1, <2>2 DEF VerifiedKept
<1>2. ASSUME NEW f \in Files, NEW c \in Contents, Edit(f, c) PROVE VerifiedKept'
  <2>1. \A g \in Files : file[g].by # "verified" => file'[g].by # "verified"
    BY <1>2 DEF Edit, StoreOK
  <2>2. \A q \in Procs : Target(q) \in Files
    BY DEF CallsOK, Job, Target
  <2> QED BY <1>2, <2>1, <2>2 DEF Edit, VerifiedKept, Target
<1>3. ASSUME UNCHANGED << pc, job, file >> PROVE VerifiedKept'
  BY <1>3 DEF VerifiedKept, Target
<1> QED BY <1>1, <1>2, <1>3 DEF Next, Acts, vars, Preview, Expire

LEMMA SessionNamesStep ==
  ASSUME OneFile, CallsOK, StoreOK, Purpose, BackedUp, Untouched, VerifiedKept,
         SessionNames, [Next]_vars
  PROVE  SessionNames'
<1>1. ASSUME NEW p \in Procs, Step(p) PROVE SessionNames'
  <2> SUFFICES ASSUME NEW f \in Files, file'[f].by = "verified"
               PROVE  session'.file = f /\ session'.orig = backup'[f]
    BY DEF SessionNames
  <2>1. Target(p) = f
    BY DEF OneFile, CallsOK, Job, Target
  <2>2. file[f].by = "verified" => session.file = f /\ session.orig = backup[f]
    BY DEF SessionNames
  <2>3. CASE Backup(p)
    <3>1. ~Repaired(Target(p)) /\ file' = file
      BY <2>3 DEF Backup, Purpose, Forward, Untouched
    <3> QED BY <2>1, <3>1 DEF Repaired
  <2>4. CASE Rename(p)
    <3>1. file' = file \/ file'[Target(p)].by # "verified"
      BY <2>1, <2>4 DEF Rename, StoreOK
    <3> QED BY <2>1, <2>2, <2>4, <3>1 DEF Rename
  <2>5. CASE Save(p)
    <3>1. file[Target(p)].by # "verified" /\ file' = file
      BY <2>5 DEF Save, VerifiedKept
    <3> QED BY <2>1, <3>1
  <2>6. CASE Commit(p)
    <3>1. CASE session' = Committed(p)
      <4>1. session'.file = Target(p) /\ session'.orig = Orig(p)
        BY <3>1 DEF Committed, SessionOf
      <4>2. backup'[Target(p)] = Orig(p)
        BY <2>6 DEF Commit, BackedUp, PastBackup
      <4> QED BY <2>1, <4>1, <4>2
    <3>2. CASE UNCHANGED << file, session, applied >>
      BY <2>2, <2>6, <3>2 DEF Commit
    <3> QED BY <2>6, <3>1, <3>2 DEF Commit
  <2>7. CASE UNCHANGED << file, session, backup >>
    BY <2>2, <2>7
  <2> QED BY <1>1, <2>3, <2>4, <2>5, <2>6, <2>7
          DEF Step, CheckToken, OpenLive, Reread, Check, PostHash, Verify
<1>2. ASSUME NEW f \in Files, NEW c \in Contents, Edit(f, c) PROVE SessionNames'
  BY <1>2 DEF Edit, SessionNames, StoreOK
<1>3. ASSUME UNCHANGED << file, session, backup >> PROVE SessionNames'
  BY <1>3 DEF SessionNames
<1> QED BY <1>1, <1>2, <1>3
        DEF Next, vars, Preview, Expire, Apply, Rollback, Crash

KeepInv == UndoInv /\ VerifiedKept /\ SessionNames

(***************************************************************************)
(* rollbackRepair: where the target root has one repairable file, what the *)
(* last session names is always what undoes the verified repair in it,     *)
(* however many writes fail and calls die.                                 *)
(***************************************************************************)
THEOREM VerifiedIsRollbackable ==
  ASSUME ~Concurrent, NoChain, OneFile
  PROVE  Spec => []Rollbackable
<1>1. Init => KeepInv
  BY UndoInit DEF KeepInv, Init, VerifiedKept, SessionNames
<1>2. KeepInv /\ [Next]_vars => KeepInv'
  <2> SUFFICES ASSUME KeepInv, [Next]_vars PROVE KeepInv'
    OBVIOUS
  <2>1. TypeOK /\ StoreOK /\ CallsOK
    BY TypeParts DEF KeepInv, UndoInv
  <2> QED BY <2>1, UndoStep, VerifiedKeptStep, SessionNamesStep DEF KeepInv, UndoInv
<1>3. KeepInv => Rollbackable
  BY DEF KeepInv, SessionNames, Rollbackable
<1> QED BY <1>1, <1>2, <1>3, PTL DEF Spec

-----------------------------------------------------------------------------
\* A repair is verified together with the session that says so.
Unverified ==
  session.status \notin {"none", "resolved_verified"} => file[session.file].by # "verified"

LEMMA UnverifiedStep ==
  ASSUME CallsOK, StoreOK, VerifiedKept, Unverified, [Next]_vars
  PROVE  Unverified'
<1>1. ASSUME NEW p \in Procs, Step(p) PROVE Unverified'
  <2>1. Target(p) \in Files /\ session.file \in Files
    BY DEF CallsOK, Job, Target, StoreOK
  <2>2. CASE Rename(p)
    <3>1. \A f \in Files : file'[f].by # file[f].by => file'[f].by # "verified"
      BY <2>1, <2>2 DEF Rename, StoreOK
    <3> QED BY <2>1, <2>2, <3>1 DEF Rename, Unverified
  <2>3. CASE Save(p)
    <3>1. file[Target(p)].by # "verified" /\ file' = file
      BY <2>3 DEF Save, VerifiedKept
    <3>2. session' = session \/ session'.file = Target(p)
      BY <2>3 DEF Save, SessionOf
    <3> QED BY <3>1, <3>2 DEF Unverified
  <2>4. CASE Commit(p)
    <3>1. CASE session' = Committed(p)
      BY <3>1 DEF Committed, SessionOf, Unverified
    <3>2. CASE UNCHANGED << file, session, applied >>
      BY <3>2 DEF Unverified
    <3> QED BY <2>4, <3>1, <3>2 DEF Commit
  <2>5. CASE UNCHANGED << file, session >>
    BY <2>5 DEF Unverified
  <2> QED BY <1>1, <2>2, <2>3, <2>4, <2>5
          DEF Step, CheckToken, OpenLive, Backup, Reread, Check, PostHash, Verify
<1>2. ASSUME NEW f \in Files, NEW c \in Contents, Edit(f, c) PROVE Unverified'
  BY <1>2 DEF Edit, Unverified, StoreOK
<1>3. ASSUME UNCHANGED << file, session >> PROVE Unverified'
  BY <1>3 DEF Unverified
<1> QED BY <1>1, <1>2, <1>3
        DEF Next, vars, Preview, Expire, Apply, Rollback, Crash

ResolveInv == ApplyInv /\ VerifiedKept /\ Unverified

(***************************************************************************)
(* writeSessionState: unless a call has died or more than one of its       *)
(* writes has failed, a session that does not say resolved_verified names  *)
(* a file without a repair in it, whichever file was repaired before.      *)
(***************************************************************************)
THEOREM UnresolvedIsUnrepaired ==
  ASSUME ~Concurrent, NoChain, MaxFails <= 1
  PROVE  Spec => []UnresolvedMeansUnrepaired
<1>1. Init => ResolveInv
  BY UndoInit DEF ResolveInv, ApplyInv, Init, Accounted, VerifiedKept, Unverified, NoSession
<1>2. ResolveInv /\ [Next]_vars => ResolveInv'
  <2> SUFFICES ASSUME ResolveInv, [Next]_vars PROVE ResolveInv'
    OBVIOUS
  <2>1. TallyOK /\ StoreOK /\ CallsOK
    BY TypeParts DEF ResolveInv, ApplyInv, UndoInv
  <2>2. ApplyInv'
    BY <2>1, UndoStep, AccountedStep DEF ResolveInv, ApplyInv, UndoInv
  <2> QED BY <2>1, <2>2, VerifiedKeptStep, UnverifiedStep DEF ResolveInv, ApplyInv, UndoInv
<1>3. ResolveInv => UnresolvedMeansUnrepaired
  <2> SUFFICES ASSUME ResolveInv, AllIdle, crashes = 0,
                      session.status \notin {"none", "resolved_verified"}
               PROVE  file[session.file].by \notin {"pending", "verified"}
    BY DEF UnresolvedMeansUnrepaired, Repaired
  <2>1. session.file \in Files
    BY TypeParts DEF ResolveInv, ApplyInv, UndoInv, StoreOK
  <2> QED BY <2>1 DEF ResolveInv, ApplyInv, Accounted, AllIdle, Running, Unverified
<1> QED BY <1>1, <1>2, <1>3, PTL DEF Spec

===============================================================================
