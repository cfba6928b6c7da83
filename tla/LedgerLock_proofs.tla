-------------------------- MODULE LedgerLock_proofs ---------------------------
(***************************************************************************)
(* Type correctness and mutual exclusion of the ledger lock, for any       *)
(* number of processes, any STALE and WAIT and any clock, in the regime in *)
(* which the lock is safe: no process dies holding it, no process stalls   *)
(* for STALE inside an attempt, and no caller passes a nowMs that old.     *)
(***************************************************************************)
EXTENDS LedgerLock, TLAPS

\* The lock directory is this process's to write or to take away.
Owns(p) == pc[p] \in {"write", "cs", "check", "unlink", "rename"}

\* Nobody dies, and no reclaim gets past the age test.
NoReclaim ==
  \A p \in Procs :
    /\ pc[p] \notin {"post", "dead"}
    /\ pc[p] \in {"unlink", "rename"} => kind[p] \in {"abort", "release"}

\* Every clock reading in use is younger than STALE.
Fresh ==
  \A p \in Procs :
    /\ Active(p) => att[p] <= now /\ now - att[p] < STALE
    /\ pc[p] = "meta" => att[p] - seen[p] < STALE

\* The directory exists exactly while one process owns it, and describes it.
OneOwner ==
  /\ \A p, q \in Procs : Owns(p) /\ Owns(q) => p = q
  /\ dir.there => \E p \in Procs : Owns(p)
  /\ \A p \in Procs : Owns(p) =>
       /\ dir.there
       /\ att[p] <= dir.mtime
       /\ dir.owner # NoProc => dir.owner = p /\ dir.created = att[p]
       /\ pc[p] \in {"cs", "check"} => dir.owner = p
       /\ pc[p] = "write" => dir.owner = NoProc

IInv == TypeOK /\ NoReclaim /\ Fresh /\ OneOwner

-----------------------------------------------------------------------------
(* Type correctness, with crashes and stalls. *)

DirType == [there : BOOLEAN, owner : Procs \cup {NoProc},
            created : Nat, mtime : Nat]

LEMMA TypeInit == Init => TypeOK
  BY LockAssumption DEF Init, TypeOK, NoDir, Steps, Kinds

LEMMA TypeStep == TypeOK /\ [Next]_vars => TypeOK'
<1> SUFFICES ASSUME TypeOK, [Next]_vars PROVE TypeOK'
  OBVIOUS
<1> USE LockAssumption DEF TypeOK, Steps, Kinds, Goto, local
<1>1. CASE Tick
  BY <1>1 DEF Tick
<1>2. ASSUME NEW p \in Procs, Begin(p) PROVE TypeOK'
  BY <1>2 DEF Begin
<1>0. now \in Nat
  OBVIOUS
<1>3. ASSUME NEW p \in Procs, Mkdir(p) PROVE TypeOK'
  <2>1. NewDir(p) \in DirType
    BY <1>0 DEF NewDir, DirType
  <2>2. pc' \in [Procs -> Steps]
    BY <1>3 DEF Mkdir, AfterFailure
  <2> QED
    BY <1>3, <2>1, <2>2 DEF Mkdir, DirType
<1>4. ASSUME NEW p \in Procs, WriteOwner(p) PROVE TypeOK'
  <2>1. [there |-> TRUE, owner |-> p, created |-> att[p], mtime |-> now] \in DirType
    BY <1>0 DEF DirType
  <2>2. pc' \in [Procs -> Steps] /\ kind' \in [Procs -> Kinds]
    BY <1>4 DEF WriteOwner
  <2> QED
    BY <1>4, <2>1, <2>2 DEF WriteOwner, DirType
<1>5. ASSUME NEW p \in Procs, Unlink(p) PROVE TypeOK'
  <2>1. [dir EXCEPT !.owner = NoProc, !.mtime = now] \in DirType
    BY <1>0 DEF DirType
  <2>2. pc' \in [Procs -> Steps]
    BY <1>5 DEF Unlink
  <2> QED
    BY <1>5, <2>1, <2>2 DEF Unlink, DirType
<1>6. ASSUME NEW p \in Procs, Rename(p) PROVE TypeOK'
  BY <1>6 DEF Rename, NoDir, AfterFailure
<1>7. ASSUME NEW p \in Procs, Stat(p) PROVE TypeOK'
  BY <1>7 DEF Stat
<1>8. ASSUME NEW p \in Procs, ReadMeta(p) PROVE TypeOK'
  BY <1>8 DEF ReadMeta
<1>9. ASSUME NEW p \in Procs, AfterReclaim(p) PROVE TypeOK'
  BY <1>9 DEF AfterReclaim
<1>10. ASSUME NEW p \in Procs, GiveUp(p) \/ Poll(p) \/ Finish(p) \/ CheckOwner(p)
       PROVE TypeOK'
  BY <1>10 DEF GiveUp, Poll, Finish, CheckOwner
<1>11. ASSUME NEW p \in Procs, Crash(p) PROVE TypeOK'
  BY <1>11 DEF Crash
<1>12. CASE UNCHANGED vars
  BY <1>12 DEF vars
<1> QED
  BY <1>1, <1>2, <1>3, <1>4, <1>5, <1>6, <1>7, <1>8, <1>9, <1>10, <1>11, <1>12
     DEF Next, Call

(* Every variable of the lock keeps its type, whatever crashes or stalls. *)
THEOREM TypeCorrect == Spec => []TypeOK
<1>1. QED
  BY TypeInit, TypeStep, PTL DEF Spec

-----------------------------------------------------------------------------
(* Mutual exclusion where nothing goes stale. *)

LEMMA SafeInit == Init => IInv
  BY TypeInit, LockAssumption
     DEF Init, IInv, NoReclaim, Fresh, OneOwner, Owns, Active, NoDir

LEMMA SafeStep ==
  ASSUME Timely, MaxCrashes = 0, MaxLag < STALE
  PROVE  IInv /\ [Next]_vars => IInv'
<1> SUFFICES ASSUME IInv, [Next]_vars PROVE NoReclaim' /\ Fresh' /\ OneOwner'
  BY TypeStep DEF IInv
<1> USE LockAssumption
    DEF TypeOK, IInv, NoReclaim, Fresh, OneOwner, Owns, Active, Goto, local, Steps
<1>0. now \in Nat
  OBVIOUS
<1>1. CASE Tick
  BY <1>0, <1>1 DEF Tick
<1>2. ASSUME NEW p \in Procs, Begin(p) PROVE NoReclaim' /\ Fresh' /\ OneOwner'
  BY <1>0, <1>2 DEF Begin
<1>3. ASSUME NEW p \in Procs, Mkdir(p) PROVE NoReclaim' /\ Fresh' /\ OneOwner'
  BY <1>0, <1>3 DEF Mkdir, NewDir, AfterFailure
<1>4. ASSUME NEW p \in Procs, WriteOwner(p) PROVE NoReclaim' /\ Fresh' /\ OneOwner'
  BY <1>0, <1>4 DEF WriteOwner
<1>5. ASSUME NEW p \in Procs, Unlink(p) PROVE NoReclaim' /\ Fresh' /\ OneOwner'
  BY <1>0, <1>5 DEF Unlink
<1>6. ASSUME NEW p \in Procs, Rename(p) PROVE NoReclaim' /\ Fresh' /\ OneOwner'
  BY <1>0, <1>6 DEF Rename, NoDir, AfterFailure
<1>7. ASSUME NEW p \in Procs, Stat(p) PROVE NoReclaim' /\ Fresh' /\ OneOwner'
  BY <1>0, <1>7 DEF Stat
<1>8. ASSUME NEW p \in Procs, ReadMeta(p) PROVE NoReclaim' /\ Fresh' /\ OneOwner'
  BY <1>0, <1>8 DEF ReadMeta, Live, AgeAnchor
<1>9. ASSUME NEW p \in Procs, AfterReclaim(p) \/ GiveUp(p) \/ Poll(p)
                              \/ Finish(p) \/ CheckOwner(p)
      PROVE NoReclaim' /\ Fresh' /\ OneOwner'
  BY <1>0, <1>9 DEF AfterReclaim, GiveUp, Poll, Finish, CheckOwner
<1>10. ASSUME NEW p \in Procs, Crash(p) PROVE FALSE
  BY <1>10 DEF Crash
<1>11. CASE UNCHANGED vars
  BY <1>11 DEF vars
<1> QED
  BY <1>1, <1>2, <1>3, <1>4, <1>5, <1>6, <1>7, <1>8, <1>9, <1>10, <1>11
     DEF Next, Call

(***************************************************************************)
(* withExclusiveLock is exclusive as long as no holder dies and none is    *)
(* slower than the staleness window.                                       *)
(***************************************************************************)
THEOREM LockIsExclusive ==
  ASSUME Timely, MaxCrashes = 0, MaxLag < STALE
  PROVE  Spec => [](MutualExclusion /\ HolderKeepsLock)
<1>1. IInv => MutualExclusion /\ HolderKeepsLock
  BY DEF IInv, OneOwner, Owns, MutualExclusion, HolderKeepsLock
<1>2. QED
  BY <1>1, SafeInit, SafeStep, PTL DEF Spec

\* The second part by itself: the directory that a holder took is still there,
\* with its owner token in it, for as long as the holder works under it.
THEOREM HolderKeeps ==
  ASSUME Timely, MaxCrashes = 0, MaxLag < STALE
  PROVE  Spec => []HolderKeepsLock
BY LockIsExclusive, PTL

-----------------------------------------------------------------------------
(* Processes may die: what a contender that gives up leaves behind. *)

\* A live process has read the clock less than STALE ago, and every stamp of
\* the directory is behind the clock.
Paced ==
  /\ \A p \in Procs : Active(p) => att[p] <= now /\ now - att[p] < STALE
  /\ dir.mtime <= now
  /\ \A p \in Procs : pc[p] = "meta" =>
       seen[p] <= now /\ (dir.there => seen[p] <= dir.mtime)

\* The lock in the way of p is young.
Young(p) == dir.there => att[p] - AgeAnchor(dir, dir.mtime) < STALE

\* A process is turned away only after it found the lock young, or after it
\* saw the path free, so that the lock there now was made since.
TurnedAwayByYoung ==
  \A p \in Procs :
    pc[p] \in {"again", "post"} \/ (pc[p] = "mkdir" /\ try[p] = 2) => Young(p)

LEMMA PacedStep ==
  ASSUME Timely, MaxLag < STALE, TypeOK, Paced, [Next]_vars
  PROVE  Paced'
<1> USE LockAssumption DEF LockAssumption, TypeOK, Paced, Active, Goto, local, Steps
<1>0. now \in Nat /\ dir.mtime \in Nat
  OBVIOUS
<1>1. CASE Tick
  BY <1>0, <1>1 DEF Tick
<1>2. ASSUME NEW p \in Procs, Begin(p) PROVE Paced'
  BY <1>0, <1>2 DEF Begin
<1>3. ASSUME NEW p \in Procs, Mkdir(p) \/ Rename(p) PROVE Paced'
  <2>1. CASE Mkdir(p)
    BY <1>0, <2>1 DEF Mkdir, NewDir, AfterFailure
  <2>2. CASE Rename(p)
    <3>1. kind[p] \in {"abort", "stale", "release"} /\ pc[p] = "rename"
      BY <2>2 DEF Kinds, Rename
    <3>2. pc'[p] \in {"stat", "again", "post", "idle"} /\ \A q \in Procs : q # p => pc'[q] = pc[q]
      BY <2>2, <3>1 DEF Rename, AfterFailure
    <3>3. dir'.mtime = 0 /\ ~dir'.there /\ UNCHANGED << now, att, seen >>
      BY <2>2 DEF Rename, NoDir
    <3> QED BY <1>0, <3>1, <3>2, <3>3
  <2> QED BY <1>3, <2>1, <2>2
<1>4. ASSUME NEW p \in Procs, WriteOwner(p) \/ Unlink(p) PROVE Paced'
  <2>1. CASE WriteOwner(p)
    BY <1>0, <2>1 DEF WriteOwner
  <2>2. CASE Unlink(p)
    BY <1>0, <2>2 DEF Unlink
  <2> QED BY <1>4, <2>1, <2>2
<1>5. ASSUME NEW p \in Procs, Stat(p) \/ ReadMeta(p) \/ AfterReclaim(p) PROVE Paced'
  BY <1>0, <1>5 DEF Stat, ReadMeta, AfterReclaim
<1>6. ASSUME NEW p \in Procs, GiveUp(p) \/ Poll(p) \/ Finish(p) \/ CheckOwner(p) \/ Crash(p)
      PROVE  Paced'
  BY <1>0, <1>6 DEF GiveUp, Poll, Finish, CheckOwner, Crash
<1>7. CASE UNCHANGED vars
  BY <1>7 DEF vars
<1> QED BY <1>1, <1>2, <1>3, <1>4, <1>5, <1>6, <1>7 DEF Next, Call

\* Whoever writes to the directory makes it young for every live process.
LEMMA WritesAreYoung ==
  ASSUME MaxLag < STALE, TypeOK, Paced, NEW p \in Procs, Active(p), att'[p] = att[p],
         NEW q \in Procs, Mkdir(q) \/ WriteOwner(q) \/ Unlink(q) \/ Rename(q), dir' # dir
  PROVE  Young(p)'
<1> USE LockAssumption DEF LockAssumption, TypeOK, Paced, Young, AgeAnchor
<1>0. now \in Nat /\ dir.mtime \in Nat /\ att[p] <= now /\ 0 < STALE
  OBVIOUS
<1>1. CASE Mkdir(q)
  BY <1>0, <1>1 DEF Mkdir, NewDir
<1>2. CASE WriteOwner(q)
  <2>1. dir' = [there |-> TRUE, owner |-> q, created |-> att[q], mtime |-> now] /\ Active(q)
    BY <1>2 DEF WriteOwner, Active
  <2> QED BY <1>0, <2>1
<1>3. CASE Unlink(q)
  BY <1>0, <1>3 DEF Unlink
<1>4. CASE Rename(q)
  BY <1>4 DEF Rename, NoDir
<1> QED BY <1>1, <1>2, <1>3, <1>4

LEMMA YoungStep ==
  ASSUME Timely, MaxLag < STALE, TypeOK, Paced, TurnedAwayByYoung, [Next]_vars
  PROVE  TurnedAwayByYoung'
<1> DEFINE Turned(p) == pc[p] \in {"again", "post"} \/ (pc[p] = "mkdir" /\ try[p] = 2)
<1> USE DEF Goto
<1> SUFFICES ASSUME NEW p \in Procs, Turned(p)' PROVE Young(p)'
  BY DEF TurnedAwayByYoung
<1>0. pc \in [Procs -> Steps] /\ try \in [Procs -> {1, 2}] /\ att \in [Procs -> Nat]
  BY DEF TypeOK
<1>1. CASE dir' = dir /\ att'[p] = att[p] /\ Turned(p)
  BY <1>1 DEF TurnedAwayByYoung, Young, AgeAnchor
<1>2. ASSUME NEW q \in Procs, Mkdir(q) \/ WriteOwner(q) \/ Unlink(q) \/ Rename(q), dir' # dir
      PROVE  Young(p)'
  <2>1. att'[p] = att[p]
    BY <1>2 DEF Mkdir, WriteOwner, Unlink, Rename, local
  <2>2. CASE Active(p)
    BY <1>2, <2>1, <2>2, WritesAreYoung
  <2>3. CASE ~Active(p)
    BY <1>0, <1>2, <2>3 DEF Active, Mkdir, WriteOwner, Unlink, Rename, local
  <2> QED BY <2>2, <2>3
<1>3. ASSUME Mkdir(p), dir' = dir PROVE Young(p)'
  BY <1>0, <1>1, <1>3 DEF Mkdir, AfterFailure, local
<1>4. ASSUME Stat(p) PROVE Young(p)'
  BY <1>0, <1>4 DEF Stat, Young
<1>5. ASSUME ReadMeta(p) PROVE Young(p)'
  <2>1. Live(p) /\ dir' = dir /\ att' = att /\ pc[p] = "meta"
    BY <1>0, <1>5 DEF ReadMeta
  <2>2. dir.there => seen[p] <= dir.mtime
    BY <2>1 DEF Paced
  <2> QED BY <2>1, <2>2, LockAssumption DEF Live, Young, AgeAnchor, TypeOK, LockAssumption
<1>6. ASSUME AfterReclaim(p) PROVE Young(p)'
  BY <1>1, <1>6 DEF AfterReclaim
<1>7. ASSUME Rename(p) PROVE Young(p)'
  BY <1>7 DEF Rename, NoDir, Young
<1>8. ASSUME \/ Begin(p) \/ WriteOwner(p) \/ Unlink(p) \/ GiveUp(p) \/ Poll(p) \/ Finish(p)
             \/ CheckOwner(p) \/ Crash(p)
      PROVE  FALSE
  BY <1>0, <1>8 DEF Begin, WriteOwner, Unlink, GiveUp, Poll, Finish, CheckOwner, Crash
<1>9. ASSUME NEW q \in Procs, q # p, Begin(q) \/ Call(q) \/ Crash(q), dir' = dir
      PROVE  Young(p)'
  <2>1. pc'[p] = pc[p] /\ try'[p] = try[p] /\ att'[p] = att[p]
    BY <1>0, <1>9 DEF Begin, Call, Crash, Mkdir, WriteOwner, Unlink, Rename, Stat, ReadMeta,
                      AfterReclaim, GiveUp, Poll, Finish, CheckOwner, local
  <2> QED BY <1>1, <1>9, <2>1
<1>10. CASE Tick \/ UNCHANGED vars
  BY <1>1, <1>10 DEF Tick, vars, local
<1>11. ASSUME NEW q \in Procs, Begin(q) \/ Call(q) \/ Crash(q), dir' # dir
       PROVE  Mkdir(q) \/ WriteOwner(q) \/ Unlink(q) \/ Rename(q)
  BY <1>11 DEF Begin, Call, Crash, Stat, ReadMeta, AfterReclaim, GiveUp, Poll, Finish,
               CheckOwner, local
<1> QED
  BY <1>2, <1>3, <1>4, <1>5, <1>6, <1>7, <1>8, <1>9, <1>10, <1>11 DEF Next, Call

(***************************************************************************)
(* However many processes die and wherever, a contender that gives up does *)
(* so before a lock that is gone or younger than STALE.                    *)
(***************************************************************************)
THEOREM LedgerIsNeverWedged ==
  ASSUME Timely, MaxLag < STALE
  PROVE  Spec => NeverWedged
<1> DEFINE Inv == TypeOK /\ Paced /\ TurnedAwayByYoung
<1>1. Init => Inv
  <2>1. Init => Paced /\ TurnedAwayByYoung
    BY DEF Init, Paced, TurnedAwayByYoung, Active, NoDir
  <2> QED BY <2>1, TypeInit
<1>2. Inv /\ [Next]_vars => Inv'
  BY TypeStep, PacedStep, YoungStep
<1>3. Inv => \A p \in Procs :
               GiveUp(p) => ~dir.there \/ att[p] - AgeAnchor(dir, dir.mtime) < STALE
  BY DEF TurnedAwayByYoung, Young, GiveUp
<1> QED BY <1>1, <1>2, <1>3, PTL DEF Spec, NeverWedged

===============================================================================
