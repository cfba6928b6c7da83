------------------------------ MODULE LedgerLock ------------------------------
(***************************************************************************)
(* The exclusive cross-process lock of the confirmation ledger             *)
(* (src/upstream/actions/ledger.ts): a directory made with mkdir, holding  *)
(* an owner.json file.  Any number of CLI and MCP server processes share   *)
(* it, a crashed holder leaves it behind, and a contender that finds it    *)
(* older than STALE takes it away.  The follow-up ledger keeps a second    *)
(* copy of the same code.                                                  *)
(*                                                                         *)
(* One action is one file-system call, or a group of calls that no other   *)
(* process can tell apart; time is a shared clock that processes read.     *)
(***************************************************************************)
EXTENDS Integers, FiniteSets

CONSTANTS
  Procs,       \* processes using the ledger
  NoProc,      \* the owner of a lock directory without owner.json
  STALE,       \* CONFIRMATION_LEDGER_LOCK_STALE_MS
  WAIT,        \* CONFIRMATION_LEDGER_LOCK_WAIT_MS
  MaxLag,      \* bound: age of the nowMs a caller passes in
  MaxNow,      \* bound: the last instant of the clock
  MaxCrashes,  \* bound: processes that die inside a call
  Timely       \* TRUE: no live process stalls for STALE inside one attempt

ASSUME LockAssumption ==
  /\ NoProc \notin Procs
  /\ STALE \in Nat /\ WAIT \in Nat /\ MaxLag \in Nat
  /\ MaxNow \in Nat /\ MaxCrashes \in Nat
  /\ Timely \in BOOLEAN

VARIABLES
  now,       \* the clock
  dir,       \* the canonical lock path, as every process sees it
  pc,        \* where each process is in its call
  att,       \* attemptNow of acquireExclusiveLock
  deadline,  \* deadline of acquireExclusiveLock
  try,       \* first or second tryAcquireLockOnce of one loop iteration
  seen,      \* st.mtimeMs in tryReclaimStaleLock
  kind,      \* kind argument of the releaseLockDir under way
  crashes

local == << att, deadline, try, seen, kind >>
vars  == << now, dir, pc, att, deadline, try, seen, kind, crashes >>

Steps == {"idle", "mkdir", "write", "stat", "meta", "post", "again", "cs",
          "check", "unlink", "rename", "dead"}
Kinds == {"abort", "stale", "release"}

NoDir == [there |-> FALSE, owner |-> NoProc, created |-> 0, mtime |-> 0]

Active(p) == pc[p] \notin {"idle", "dead"}

Goto(p, to) == pc' = [pc EXCEPT ![p] = to]

(***************************************************************************)
(* Where tryAcquireLockOnce returns to when it fails: the first attempt    *)
(* of an iteration is followed by tryReclaimStaleLock, the second (after a *)
(* reclaim) by the deadline test.                                          *)
(***************************************************************************)
AfterFailure(p) == IF try[p] = 1 THEN "stat" ELSE "again"

\* Mutant: a lock directory without owner.json has no age and counts as old.
AgeAnchor_OwnerlessIsOld(d, mtime) ==
  IF d.there /\ d.owner # NoProc THEN d.created ELSE 0 - STALE

(***************************************************************************)
(* ageAnchor of tryReclaimStaleLock: the oldest of the owner's created_at  *)
(* and the mtimes; the directory's mtime, read earlier, without an owner.  *)
(***************************************************************************)
AgeAnchor(d, mtime) ==
  IF d.there /\ d.owner # NoProc
  THEN IF d.created < d.mtime THEN d.created ELSE d.mtime
  ELSE mtime

Init ==
  /\ now = 0
  /\ dir = NoDir
  /\ pc = [p \in Procs |-> "idle"]
  /\ att = [p \in Procs |-> 0]
  /\ deadline = [p \in Procs |-> 0]
  /\ try = [p \in Procs |-> 1]
  /\ seen = [p \in Procs |-> 0]
  /\ kind = [p \in Procs |-> "release"]
  /\ crashes = 0

(***************************************************************************)
(* acquireExclusiveLock is entered with a nowMs its caller read up to      *)
(* MaxLag ago.  Bound: a call starts only if its deadline is on the clock. *)
(***************************************************************************)
Begin(p) ==
  /\ pc[p] = "idle"
  /\ now + WAIT + 1 <= MaxNow
  /\ \E lag \in 0..MaxLag :
       /\ lag <= now
       /\ att' = [att EXCEPT ![p] = now - lag]
       /\ deadline' = [deadline EXCEPT ![p] = now - lag + WAIT]
  /\ try' = [try EXCEPT ![p] = 1]
  /\ Goto(p, "mkdir")
  /\ UNCHANGED << now, dir, seen, kind, crashes >>

NewDir(p) ==
  [there |-> TRUE, owner |-> NoProc, created |-> 0, mtime |-> now]

\* mkdirSync of the lock directory; EEXIST fails the attempt.
Mkdir(p) ==
  /\ pc[p] = "mkdir"
  /\ \/ /\ ~dir.there
        /\ dir' = NewDir(p)
        /\ Goto(p, "write")
     \/ /\ dir.there
        /\ Goto(p, AfterFailure(p))
        /\ UNCHANGED dir
  /\ UNCHANGED << now, local, crashes >>

(***************************************************************************)
(* lstat of the new directory, then owner.json written with flag wx.  The  *)
(* write may fail at any time (and does if the file is there or the        *)
(* directory is gone): the attempt is aborted.  An lstat that finds no     *)
(* directory throws LEDGER_IO, which ends the call.                        *)
(***************************************************************************)
WriteOwner(p) ==
  /\ pc[p] = "write"
  /\ \/ /\ dir.there /\ dir.owner = NoProc
        /\ dir' = [there |-> TRUE, owner |-> p, created |-> att[p], mtime |-> now]
        /\ Goto(p, "cs")
        /\ UNCHANGED kind
     \/ /\ kind' = [kind EXCEPT ![p] = "abort"]
        /\ Goto(p, "unlink")
        /\ UNCHANGED dir
     \/ /\ ~dir.there
        /\ Goto(p, "idle")
        /\ UNCHANGED << dir, kind >>
  /\ UNCHANGED << now, att, deadline, try, seen, crashes >>

\* releaseLockDir, first half: owner.json of whatever directory is there now.
Unlink(p) ==
  /\ pc[p] = "unlink"
  /\ dir' = IF dir.there /\ dir.owner # NoProc
            THEN [dir EXCEPT !.owner = NoProc, !.mtime = now]
            ELSE dir
  /\ Goto(p, "rename")
  /\ UNCHANGED << now, local, crashes >>

\* releaseLockDir, second half: the directory is renamed to a unique tomb.
Rename(p) ==
  /\ pc[p] = "rename"
  /\ dir' = NoDir
  /\ Goto(p, CASE kind[p] = "abort"   -> AfterFailure(p)
               [] kind[p] = "stale"   -> "post"
               [] kind[p] = "release" -> "idle")
  /\ UNCHANGED << now, local, crashes >>

\* tryReclaimStaleLock: lstat of the lock directory.
Stat(p) ==
  /\ pc[p] = "stat"
  /\ \/ ~dir.there /\ Goto(p, "again") /\ UNCHANGED seen
     \/ dir.there /\ Goto(p, "meta") /\ seen' = [seen EXCEPT ![p] = dir.mtime]
  /\ UNCHANGED << now, dir, att, deadline, try, kind, crashes >>

\* Mutant: off by one in the age test.
Live_OffByOne(p) == att[p] - AgeAnchor(dir, seen[p]) + 1 < STALE

\* Mutant: a lock whose owner.json cannot be read counts as live.
Live_NeedsOwner(p) ==
  dir.owner = NoProc \/ att[p] - AgeAnchor(dir, seen[p]) < STALE

\* The age test of tryReclaimStaleLock.
Live(p) == att[p] - AgeAnchor(dir, seen[p]) < STALE

\* readLockMeta and the age test; a lock young enough is left alone.
ReadMeta(p) ==
  /\ pc[p] = "meta"
  /\ IF Live(p)
     THEN Goto(p, "again") /\ UNCHANGED kind
     ELSE Goto(p, "unlink") /\ kind' = [kind EXCEPT ![p] = "stale"]
  /\ UNCHANGED << now, dir, att, deadline, try, seen, crashes >>

\* The lstat after the rename: a free path means one more attempt at once.
AfterReclaim(p) ==
  /\ pc[p] = "post"
  /\ IF dir.there
     THEN Goto(p, "again") /\ UNCHANGED try
     ELSE Goto(p, "mkdir") /\ try' = [try EXCEPT ![p] = 2]
  /\ UNCHANGED << now, dir, att, deadline, seen, kind, crashes >>

\* The one deadline test of an iteration.
Expired(p) == att[p] >= deadline[p]

\* attemptNow >= deadline: LEDGER_LOCK, "lock busy (fail-closed)".
GiveUp(p) ==
  /\ pc[p] = "again"
  /\ Expired(p)
  /\ Goto(p, "idle")
  /\ UNCHANGED << now, dir, local, crashes >>

\* Mutant: attemptNow is not read again after the sleep, so neither the age of
\* a lock that was left behind nor the deadline is ever reached.
Poll_NeverRefreshed(p) ==
  /\ pc[p] = "again"
  /\ ~Expired(p)
  /\ now > att[p]
  /\ try' = [try EXCEPT ![p] = 1]
  /\ Goto(p, "mkdir")
  /\ UNCHANGED << now, dir, att, deadline, seen, kind, crashes >>

\* sleepMs, then the clock is read again and the loop restarts.
Poll(p) ==
  /\ pc[p] = "again"
  /\ ~Expired(p)
  /\ now > att[p]
  /\ att' = [att EXCEPT ![p] = now]
  /\ try' = [try EXCEPT ![p] = 1]
  /\ Goto(p, "mkdir")
  /\ UNCHANGED << now, dir, deadline, seen, kind, crashes >>

\* fn() returns or throws: the finally clause of withExclusiveLock.
Finish(p) ==
  /\ pc[p] = "cs"
  /\ Goto(p, "check")
  /\ UNCHANGED << now, dir, local, crashes >>

\* releaseExclusiveLock: the lock is released only if owner.json names us.
CheckOwner(p) ==
  /\ pc[p] = "check"
  /\ IF dir.there /\ dir.owner = p
     THEN Goto(p, "unlink") /\ kind' = [kind EXCEPT ![p] = "release"]
     ELSE Goto(p, "idle") /\ UNCHANGED kind
  /\ UNCHANGED << now, dir, att, deadline, try, seen, crashes >>

\* The process dies; whatever it left on disk stays.
Crash(p) ==
  /\ Active(p)
  /\ crashes < MaxCrashes
  /\ crashes' = crashes + 1
  /\ Goto(p, "dead")
  /\ UNCHANGED << now, dir, local >>

Tick ==
  /\ now < MaxNow
  /\ Timely => \A p \in Procs : Active(p) => now + 1 - att[p] < STALE
  /\ now' = now + 1
  /\ UNCHANGED << dir, pc, local, crashes >>

Call(p) ==
  \/ Mkdir(p) \/ WriteOwner(p) \/ Unlink(p) \/ Rename(p)
  \/ Stat(p) \/ ReadMeta(p) \/ AfterReclaim(p)
  \/ GiveUp(p) \/ Poll(p) \/ Finish(p) \/ CheckOwner(p)

Next ==
  \/ Tick
  \/ \E p \in Procs : Begin(p) \/ Call(p) \/ Crash(p)

Spec == Init /\ [][Next]_vars

(***************************************************************************)
(* A process inside a call keeps running: the code is synchronous and      *)
(* waits for nothing but the clock.  Time passes whatever the processes    *)
(* do; strong fairness, because under Timely the model lets the clock move *)
(* only between their steps, and no clock stops for ever for that.         *)
(***************************************************************************)
Fairness == SF_vars(Tick) /\ \A p \in Procs : WF_vars(Call(p))

FairSpec == Spec /\ Fairness

-----------------------------------------------------------------------------
TypeOK ==
  /\ now \in 0..MaxNow
  /\ dir \in [there : BOOLEAN, owner : Procs \cup {NoProc},
              created : Nat, mtime : Nat]
  /\ pc \in [Procs -> Steps]
  /\ att \in [Procs -> Nat]
  /\ deadline \in [Procs -> Nat]
  /\ try \in [Procs -> {1, 2}]
  /\ seen \in [Procs -> Nat]
  /\ kind \in [Procs -> Kinds]
  /\ crashes \in 0..MaxCrashes

(***************************************************************************)
(* withExclusiveLock is exclusive: two processes are never both inside the *)
(* function they run under the lock.                                       *)
(***************************************************************************)
MutualExclusion ==
  \A p, q \in Procs : pc[p] = "cs" /\ pc[q] = "cs" => p = q

(***************************************************************************)
(* While a process runs its function the lock on disk is its own: nobody   *)
(* renamed it away or wrote another owner.json over it.                    *)
(***************************************************************************)
HolderKeepsLock ==
  \A p \in Procs : pc[p] \in {"cs", "check"} => dir.there /\ dir.owner = p

(***************************************************************************)
(* The comment on tryReclaimStaleLock: "Live locks (age < STALE) are never *)
(* reclaimed."  What the rename of a reclaim takes away is a lock that is  *)
(* stale at that moment, or nothing.                                       *)
(***************************************************************************)
LiveLocksNeverReclaimed ==
  [][\A p \in Procs :
       Rename(p) /\ kind[p] = "stale" /\ dir.there
         => now - dir.mtime >= STALE
              \/ \A q \in Procs : pc[q] \notin {"write", "cs", "check"}]_vars

(***************************************************************************)
(* The ledger is never wedged: a contender that gives up with "lock busy"  *)
(* leaves behind a lock younger than STALE, or no lock at all.  A lock     *)
(* left by a crash at any step blocks nobody for longer than STALE.        *)
(***************************************************************************)
NeverWedged ==
  [][\A p \in Procs :
       GiveUp(p) => ~dir.there \/ att[p] - AgeAnchor(dir, dir.mtime) < STALE]_vars

(***************************************************************************)
(* Every call ends: with the lock taken and released, with LEDGER_LOCK or  *)
(* LEDGER_IO, or with the death of the process.  Nobody polls for ever.    *)
(***************************************************************************)
CallsEnd == \A p \in Procs : Active(p) ~> ~Active(p)
===============================================================================
