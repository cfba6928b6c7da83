# Codex ChangeGuard: a TLA+ verification project

ChangeGuard is a command-line program, an MCP server and a SessionStart hook
over one set of cores (`src/src`): it diagnoses a broken Codex installation,
repairs it with a rollback, keeps a ledger of what it learned, and prepares
(and, once confirmed, performs) actions on upstream issues. Several of its
processes may run at once over the same files, each may die at any moment, and
none of them talks to another except through those files. That is what this
project is about: the state on disk, what the calls do to it step by step, and
what overlapping calls, crashes, failing writes, a moving clock and the user's
own edits make of it.

Paths below are relative to the repository.

## 1. The system

| part | state it keeps | operations | hard behaviour |
|---|---|---|---|
| Confirmation ledger (`src/upstream/actions/ledger.ts`) | `confirmation-ledger.json` of at most `CAPACITY` entries, a lock directory with `owner.json` | register, claim, consume, mark uncertain, read; take, reclaim and release the lock | contenders, dead holders, stale reclaim, waiting, pruning and expiry, capacity |
| Upstream actions (`confirmation.ts`, `confirm.ts`, `preview.ts`) | none of their own: tokens are self-contained, their nonces are ledger entries | preview, confirm, cancel, execute, query back | ledger read without the lock and changed under it, remote timeouts, death between claim and outcome, marks that fail |
| Recovery engine (`src/core/recovery`) | per target root `.changeguard/backup/*` and one `session.json`; the user's files themselves | preview, apply, verify, rollback | no lock, several writes per call, failing writes, death between them, edits under its feet, one session for all files |
| Plugin-cache recovery (`plugin-cache.ts`) | artifact and manifest, a backup of each | the same transaction over a pair of files | two replacements, verification that writes |
| Lifecycle (`src/core/lifecycle`) | one sealed ledger per target: repair backups, known-good checkpoints, recipes, retention, canary, guidance; in-memory witnesses | record, start, known good, retain, assess, A/B, roll back, canary, supersede | load-change-save without a lock, caps and time, witnesses consumed before the save |
| Follow-up (`src/upstream/followup`) | a second ledger with a copy of the same lock: subscriptions and events | subscribe, unsubscribe, refresh, process event, hint | replayed and reordered events, disposition changes, migration, caps |
| Instance scan (`src/instances`) | `version-fingerprint` state file | scan, compare, save; SessionStart notice | state saved before the notice is delivered, corrupt state |
| Official evidence (`src/evidence`) | bundled snapshot (read-only) | refresh behind an approval, stale fallback, official-fix binding | transport failure, clock skew |
| Diagnosis, crash family, config, plugin-cache observation, impact, page | none | read-only decisions; the registered config edits | precedence and gates between many conditions |
| Platform gates and receipts (`src/platform`, `src/harness`) | a receipt and the witness of the process that made it | gate a write, run the scenarios, validate a receipt | links that move between two looks, copied and edited receipts |
| Local update (`src/instances/local-update`) | none | discover the staged update, compare it | the updater installs meanwhile, caps and budgets |
| Demo (`src/core/demo`) | a disposable directory | ten ordered steps, cleaned up | failure of any step |
| MCP server, CLI, hook | the frame buffer and the initialised flag; none; none | dispatch to the cores | chunked frames, oversized frames, tables of arguments that have to agree |

Preview calls write nothing and hand out a token; a second call, perhaps in
another process and much later, presents it. Every core therefore re-measures
what the token was bound to, and nearly every hazard of this code is a change
between such a measurement and the write that relies on it.
`PROJECT.json` lists every component and every hazard with its line and the
properties that cover it.

## 2. Plan

In the order of how much of the system rests on it:

1. `LedgerLock`: the lock both ledgers use. *(done)*
2. `ConfirmationLedger`, `UpstreamActions`, and the abstract `OneShot` they
   implement. *(done)*
3. `Recovery`: the repair transaction. *(done)*
4. `Lifecycle`: the lifecycle ledger and its load-change-save calls. *(done)*
5. `Followup`: subscriptions and events, over the same lock. *(done)*
6. `PluginCacheRepair`: the two-file transaction, its quarantine and its
   reconciliation cycle. *(done)*
7. `InstanceScan` with the SessionStart notice, `OfficialEvidence`,
   `McpFraming`. *(done)*
8. The decision procedures as operators with a reference to hold them against:
   gates, receipts, diagnosis, config, capsules, follow-up replies, local
   update, enumeration, impact, page, tools and command line, and the demo that
   goes through several of them. *(done)*
9. Proofs of every safety property the passing runs check, component by
   component. *(done but for `InstallationIsHonest`, see section 5)*
10. Composition of `UpstreamActions` with a remote that keeps idempotency keys:
   `CapsuleActions` has the remote, without the races.

## 3. The modules

Names in the modules are the names of the source where TLA+ allows it; the map
in `PROJECT.json` gives the lines each definition stands for. An action is what
one process does between two points where another can see or disturb it: a
file-system call, a transaction under the lock, a call of the remote. Every
random or external outcome (which write fails, what the remote answers, who
runs next) is a choice. A definition whose comment begins with *Mutant* is a
plausible bug; the mutant list says which definition it stands in for and
which property notices.

### LedgerLock

One lock directory (`dir`: is it there, whose `owner.json`, its `created_at`,
its mtime), the processes that want it (`pc` and the locals of
`acquireExclusiveLock`), and a clock. `Mkdir`, `WriteOwner`, `Stat`,
`ReadMeta`, `Unlink`, `Rename`, `AfterReclaim`, `GiveUp`, `Poll` are the steps
of `tryAcquireLockOnce`, `tryReclaimStaleLock`, `releaseLockDir` and the loop
around them; `Finish` and `CheckOwner` those of `withExclusiveLock` and
`releaseExclusiveLock`. A call starts with a `nowMs` its caller read up to
`MaxLag` ago. `owner.json` may fail to be written, and a process may die at any
step. The symbolic-link and directory checks are left out: nothing in the
program makes the path anything but a directory.

### Pruning, ConfirmationLedger, UpstreamActions, OneShot

`Pruning` is "sort by a stamp and keep the newest", which both ledgers do; ties
go either way. `ConfirmationLedger` has the ledger's operations as functions
from document to documents (they all run under the lock). `UpstreamActions`
is `previewUpstreamAction` and `confirmUpstreamAction`: the unlocked `Parse`,
`Cancel` with its second look and second try, `Claim`, `Execute`, `Query` after
a timeout, `Settle`; `Busy` names the steps whose ledger operation may fail.
`claims`, `executed`, `reports` and `voided` (what a cancel has marked in time)
are histories. A token is its nonce: the MAC, the binding to the content and
the capsule gate decide nothing the ledger depends on.

Every operation takes its `nowMs` before it waits for the lock
(`ledger.ts:760`, `confirmation.ts:552`): a transaction compares and stamps
with any reading of the clock from `since`, the moment the process reached the
operation, to `now` (`Readings`). There is no bound on how old it may be, since
a process can be held up between the two for longer than the lock's `WAIT`;
`cli/main.ts:1338` and `mcp/server.ts:921`, the callers, pass no `nowMs` of
their own. So a claim may be granted after the expiry, and `OneShot`, the
abstract specification, says to whom: a permission is issued, open, then late,
closed for good by a grant or for any other reason; an open one is granted to
whoever asks, a late one only to who asked for it in time and was kept
waiting. `Abstract` in `UpstreamActions` maps the ledger to it (open =
registered and unexpired, late = registered and expired).

### Recovery

Per file of one target root: its content and, as history, who wrote it; its
backup. One `session.json`. Contents are abstract, so equal hash means equal
content, and `Fix` is the repair plan. A call goes through `CheckToken`,
`OpenLive`, `Backup`, `Check`, `Rename`, `PostHash`, `Save`, `Verify`, `Commit`
(`applyRepair`), or `Reread`, `Check`, `Rename`, `PostHash`, `Save`
(`rollbackRepair`, the automatic rollback and, without the save, the restore of
the error path); `job[p].what` says which. `OnError` is the `catch` of
`applyRepair`. `held` says whether the inode opened is still the one at the
path, which is what `atomicReplaceFile` compares; an edit either replaces the
inode or, `inPlace`, keeps it and its size. `Precedes` is the order in which
preview looks for faults.

### Lifecycle

One sealed ledger: ordinary repair backups, known-good checkpoints, superseded
recipes, guidance; the control files; the witness of each process. Each
operation is `Call` (load and compute) followed by `Save`, with `Restore` and
`Verify` between them for `rollbackSurface`. Calls of different processes
overlap, as they do: there is no lock. `overlap` is a history: it says whether
two calls have overlapped so far, which is what `ReportedIsKept` depends on.
`starts` counts what really happened, `passed` that a canary ran with live
authority, `recorded` what was reported with `ok`.

### Followup

The subscriptions, at most one record per issue, and the events handled. Every
operation is one transaction under the lock, so one action. An event is what it
says, since its digest covers all of it; it may be delivered any number of
times, in any order, with any id. `KeptSubs` and `KeptEvents` are the two parts
of `prune`.

### PluginCache, PluginCacheRepair

`PluginCache` is the observation: which files are looked at, and the four
mechanisms in the order of `classifyPluginCacheMechanism`; the diagnosis uses
it too. `PluginCacheRepair` is the
repair over cache and manifest. A call goes through the token, the live plan,
two backups, the optional quarantine (a rename and a fresh file), the
replacements, the session, the reconciliation cycle and the verification; the
error paths, the rollback and `verifyRepair` (which runs the cycle too) are
actions of their own. What the last reconciliation did is part of the
installation: it may overwrite the cache with the user's own or bundled bytes.
`before` and `raced` are histories: what the pair held when the call began, and
whether somebody edited it under the call.

### The surfaces (Guards, Surfaces, MCSurfaces)

The modules below share no state: a process serves one command. `Guards`
instantiates those whose proofs are long, `Surfaces` the rest, and composes
them: `surface` says in the first state which of them the behaviour is about,
the others' variables stand still, and each property of `Surfaces` is a
conjunction of the named properties its modules state. `MCSurfaces` gives the
inputs, and one run checks them all. Most
are a decision with a step or a few, over inputs enumerated as `request`: one
input is a world as the program may find it, and the property says what the
answer has to have in common with that world, in terms other than the code's.

- **InstanceScan**: `scanInstances` and the trusted hook on it. Identify, load
  the stored baseline, hash one artifact after the other, compare, save,
  deliver; the installation changes at any step, saves fail, files turn
  unreadable, the hook is killed. `owed` is a history: a saved change nobody
  has been told of. `BaselineTold` holds where no hook is killed.
- **Enumeration**: the adapters of each platform over a file tree with links
  and host mounts, what counts as evidence of a version, and the instance an
  observed process belongs to.
- **OfficialEvidence**: disclosure, transport, normalisation, the bundle with
  its integrity, the fallback, and the binding of an official fix.
- **Impact**: the registered matchers, the graph under its cap, and the card.
- **McpFraming**: the accumulator byte by byte, under every chunking; the
  property compares it with the frames of the whole input.
- **McpTools**: the schemas `tools/list` advertises and what the handlers
  accept, two tables in the code and here.
- **RescueCli**: the words of every command and what they stand for, next to
  `McpTools`: the same core with the same arguments, said either way.
- **Demo**: `runDemo` with every way a step fails, throws or exceeds the
  budget, the receipt and the clean-up. The re-proof of the target is one step
  and the write it is for another; the root or the target may be swapped for a
  link at any moment, and a write then goes where the path leads. `strayed` is
  a history of writes that went elsewhere: a *meant* one, or a *best-effort*
  rollback, which the code makes without a proof. `window` says that a swap
  fell between a proof and its write.
- **PlatformGate**: `realpath` and `lstat` over a file system with links, the
  proof that a target is disposable, the Windows scope and policy. The file
  system may be another one at the apply.
- **SupportReceipts**: the macOS harness to its receipt, the witness only its
  process holds, validation here and elsewhere, the Windows receipt, the
  capability matrix.
- **Diagnosis**: the incident's parser by its defects, the stages of the
  diagnosis in their order (the plugin cache is observed and classified as in
  `PluginCache`), the crash families with scores in hundredths.
- **PageAnalysis**: the envelope, the fetch and its fallback, extraction,
  commands and their blocks, the comparison with the local incident.
- **ConfigRepair**: documents as lines; parser, validation, the fault reported
  and the registered edit behind its capsule, against a declarative reading of
  what a document says. `KeyOrder` lists the keys two files may both have as
  their dotted names sort. `Paths` has the operators on paths that it and
  `PlatformGate` need.
- **UpstreamPreview, CapsuleActions**: from a request to a capsule, and from a
  capsule through gate, manifest, token and confirmation to the remote.
- **FollowupReply**: what follow-up calls answer, and what that may claim next
  to the lifecycle ledger of the same target.
- **LocalUpdate**: discovery under caps, hashing under budgets, the header of
  an archive within its bounds, and the comparison.

## 4. The runs

All bounds are constants; each is commented where it is declared.

| run | instance | shows |
|---|---|---|
| `LockCrash` | 2 processes, `STALE` 2, `WAIT` 1, a caller's clock up to 1 old, 5 ticks, one crash | exclusion, the holder keeps its lock, a dead lock is reclaimed, every call ends |
| `LockReclaimRace` (violation) | 3 processes, one crash | two contenders judge the same dead lock stale; the second renames away the live lock the first has made |
| `ActionsRace` | 2 nonces, 2 processes, capacity 1, TTL 1, clock 2, readings of it of any age since the operation was reached, any crash, any ledger operation may fail | one execution per nonce, one outcome, a claim is never reopened or dropped, no claim after a cancel's mark, refinement of `OneShot` |
| `CancelInFlight` (violation) | 1 nonce, 2 processes | a cancel marks consumed what another process has claimed |
| `RepairSerial` | 1 file with two faults, 2 tokens, edits at every step, one failing write per call, one crash | undoable, all or nothing, honest session, rollbackable |
| `TokenReplay` (violation) | 1 file, 2 tokens, each applied at most twice | a consumed token applies again after another token's session |
| `EditUndone` (violation) | 1 file, 1 token, an edit during the call | the error path overwrites the edit that was detected |
| `Lifecycle` | 2 overlapping processes, 1 surface, 2 contents, 1 digest, ages, starts and caps of 1, 2 record ids | lost updates never prune early nor recommend without measurement; the cap keeps the last checkpoints; what was reported is kept while no calls overlapped |
| `LifecycleFull` (violation) | 1 process, `MAX_RECORDS` 1 | the record that fills the list makes checkpoints unreachable |
| `Followup` | 3 issues, 2 subscriptions, 2 events in all, 1 per issue, events that repeat, move in a circle, and move onto themselves | caps, idempotent replay, followed on, fair share |
| `PluginPair` | 2 tokens, 3 contents, 2 manifests, 2 installations, edits between and during calls, one failing write per call, one crash | no bytes are lost, a verified pair can be rolled back, a session tells the truth, a resolved repair survives the next reconciliation |
| `Surfaces` | about 975,000 states over 16 surfaces; the inputs of each are sets in `MCSurfaces` | what each surface promises |

Why these bounds are enough to meet the interesting cases. The lock's races
take two contenders and one dead holder; `STALE` above `WAIT` is the code's
relation (30 s and 2 s) and five ticks let a lock go stale and be taken again.
With a capacity of one, two nonces already make every pruning branch happen
(an in-flight entry and a registered one over capacity; a finished one making
room), and a clock of two lets a token expire before, during and after a claim.
A repair needs two tokens of one file for a session to be replaced, and one
failing write per call to enter the error path at every step (a second failing
write defeats the restore itself: `AllOrNothing` is about one). The lifecycle
caps are compared at their boundary by caps of one, and the constraint
`MeasuredMakesOne` lets a behaviour with a live measurement make one record:
measurements and records meet in the guidance only. Three issues make a circle
of duplicates longer than the subscription cap. In the pair, two manifests (an
update in place of the one that was bound) and three contents (the trusted
ones, bad ones, the user's) tell all the mechanisms apart.

The surfaces' inputs are cartesian products of what each check looks at, one
or two deviations from a world in which the call succeeds, so that every guard
is the first to fail in some input and every pair of neighbours is met in both
orders. Where a limit decides (items, edges, frames, archive nodes, commands)
it is two or three and the inputs go one beyond. The mutants show that each
conjunct's case happens.

A run repeats a type invariant only where it is cheap (`PluginPair`); the types
of the others are theorems (section 5).
`CHECK_DEADLOCK FALSE` everywhere: the clocks are bounded, tokens are used up
and commands end, so a behaviour may end, and so does the program.

**Fairness.** Only `LockCrash` checks liveness. `FairSpec` has weak fairness of
each process's own steps (`Call`): the code is synchronous between file-system
calls and sleeps only for a bounded time, so a process that has not died goes
on. It has strong fairness of the clock, because with `Timely` the model holds
the clock back between steps, which no real clock is. Starting a call and
dying are not fair.

**Timely.** In `LockCrash` no live process stalls for `STALE` between two polls.
The code relies on it (a live holder that stalls 30 seconds in a ledger
operation is treated as dead); without it no lease-like lock is exclusive. The
two-contender race of `LockReclaimRace` happens with `Timely` too.

## 5. The proofs

`tlapm` proves, for every value of the constants that meets the modules'
assumptions (`LockAssumption`, `LedgerAssumption`, `ActionsAssumption`,
`RecoveryAssumption`, `LifecycleAssumption`, `FollowupAssumption`,
`PluginRepairAssumption`, `GuardsAssumption`, `SurfacesAssumption`):

- **LedgerLock_proofs.** `TypeCorrect` without further assumptions, and
  `LockIsExclusive` (mutual exclusion and `HolderKeepsLock`) assuming `Timely`,
  no crash and a caller's clock younger than `STALE`. Crashes have to be
  excluded, as `LockReclaimRace` shows. The invariant is that the directory
  exists exactly while one process owns it and describes that process
  (`OneOwner`), every clock reading in use is younger than `STALE` (`Fresh`),
  and hence no reclaim passes the age test (`NoReclaim`); `HolderKeeps` is its
  second half alone. `LedgerIsNeverWedged` holds whoever dies: a contender that
  gives up stands before a lock that is gone or young (`TurnedAwayByYoung`),
  because its own clock keeps up with the lock's age (`Paced`, `Young`).
- **UpstreamActions_proofs.** `TypeCorrect`; `ExecutedAtMostOnce`
  (`AtMostOneExecute`, `ClaimIsFinal`, `OneOutcome`; the last two also by
  themselves, `ClaimedForGood` and `OneOutcomeReported`) from an invariant that
  counts, for each nonce, the claim against the one call that holds it and the
  execution and outcome it may still produce; `Refinement`, that every step is
  one of `OneShot` or a stutter, from the same invariant; `InFlightIsKept`,
  that pruning drops no claim in flight, from the ledger never holding more
  entries than its capacity (`Fits`); and `CancelIsFinal`, that no claim follows a
  mark a cancel made in time, whichever operations fail and however old the
  reading of a process that waits for the lock. The lemmas about the ledger say
  what each operation does to each entry. None of them assumes anything of how
  long an operation waits.
- **Recovery_proofs**, where calls do not overlap and no repair leaves a fault
  (`NoChain`): `RepairsAreUndoable` under any edits, failures and crashes;
  `ApplyIsAllOrNothing` and `UnresolvedIsUnrepaired` with at most one failing
  write in a call; `VerifiedIsRollbackable` with one target file. With two, the
  one session forgets the first: that assumption is needed. The invariants
  relate a pending repair to the one running call (`OneCall`, `Accounted`) and
  a repaired file to its backup (`UndoInv`), and what is verified to the
  session (`KeepInv`).
- **Lifecycle_proofs.** Under overlapping calls: `PrunedWhenDue` and
  `RecommendMeasured`. They need an invariant of the ledger on disk *and* of
  every ledger some process is about to save (`LifecycleInv`): no entry counts
  more starts than there were, no pruned one is younger than it must be, no
  recommendation stands without a passed canary; so that a lost update can
  only lose. `LastNRetained` needs another of both (`TrimInv`): no
  surface has more unpruned checkpoints than the cap allows, nor fewer while one
  of it is pruned. Where calls do not overlap: `RecordsKept` and `EvidenceKept`.
- **Followup_proofs.** `LedgerFits` (a saved ledger can always be loaded) from
  two lemmas on pruning, `FollowsOn`, `ReplayIgnored` and `SharesAreFair`; for
  any set of issues and events.
- **PluginCacheRepair_proofs**, one call at a time: `TypeCorrect`;
  `FoundBytesAreKept`, that the bytes an apply found in the cache entry are in
  the entry, the backup or the quarantine at every step, through its own
  restore and any number of rollbacks, and are the ones put back (what an edit
  or a cycle put there after the apply is not covered, see section 6); `VerifiedPairIsRollbackable`,
  `SessionSaysRestored` and `ResolvedMeansResolved` from the relation of each
  file to its backup and to the session (`PairInv`); `NoRepairLeftPending` with
  at most one failing write in a call (`Accounted`): with two TLC finds the
  repair that is left.
- **Guards_proofs.** For each of ten surfaces an invariant of its own, in
  GuardsInvariants, that implies what its module promises: `ScanInv` (a baseline that is saved and not
  told of is owed to the job at hand), `EvidenceInv` (whatever the lists, a
  normalised item is one of them and a bundled one keeps its seal), `GateInv`
  (the directory that is written is the one that was proved, hop by hop of the
  resolution, by induction on its length), `ReceiptInv` (what has been earned by
  a run travels with its seal and nothing else does), `DemoInv` (the steps done
  so far tell where the run is and what the target holds), `ReplyInv`,
  `CapsuleInv` (a token is for what was previewed), `DiagInv` and `PageInv` (the
  answer is one the code computes from what it was asked). `ConfigInv` says of
  the last capsule, while nobody else has changed a file, that it is made from
  the files as they are or has done its work (`Current`). That a repair which
  passes its verification takes out its key, and besides it only what ends in
  the key's name (`RepairExactly`), follows line by line: the edited lines are read into the
  same document but for the keys the edit was to take (`EditStep`, `EditedSound`,
  by induction on the lines), and a document without a fault has the right
  types (`RightTypes`), so that it starts. What follows of the
  diagnosis rests on arithmetic about the crash families: what each can score
  with which marks (`RawBounds`, `HighHasTwoMarks`), that a preference nudges by
  three (`Nudged`), that the survivors stand in a strict order (`InOrder`).
  What `DemoInv` says of writes rests on the proofs and the write being steps of
  their own: a swap between them is the only way a meant write strays.
- **Surfaces_proofs.** The surface stays, so each of these invariants is one of
  the composition, together with those of the MCP server and the command line:
  `FrameInv` (what is retained is the line the bytes read so far have begun, or
  it is being discarded), `McpInv` and `CliInv` (a line is answered by what its
  words say). The theorems: `ScanTypeCorrect`, `ScanTellsTruly`, `SilenceMeansStored`,
  `OfficialEvidenceIsSound`, `NothingUngatedIsWritten`, `SupportClaimsAreEarned`,
  `DemoTellsTruly`, `RepliesTellWhatWasMeasured`, `WhatIsSubmittedIsEarned` and
  `DiagnosisTellsWhatWasMeasured` (with the pages; `DiagHelped`: a preference
  lifts nothing over a threshold that lacks more than three hundredths),
  `McpServesExactly` and `ConfigRepairsExactly` (`ConfigExact`: where no other
  key ends in the name, only the key goes).

The assumptions about the surfaces' inputs are those the inputs of the program
meet: that what is absent is not written like a word of the model, that lists
are sequences with the fields their parsers demand, that limits are numbers
(`SoundEvidence`, `SoundRequests`, `SoundSupport`, `SoundCalls`,
`SoundSubmissions`, `SoundIncidents`, `SoundPages`, `SoundRepairs`,
`SoundFrames`, `SoundLines`; the last says that the words of a line are flags and
positionals with a value each). TLC evaluates them, as every
assumption here, on the values of the runs.

What the bytes, a document or an edit come to is a function of how much of it
has been read (`Read`, `Reading`, `Editing`), each defined by recursion. The
induction theorems of the library take an operator, which no installed prover can
instantiate; here `UpTo` does their work, for the *set* of numbers at which a fact
holds, from the least number outside it (`LeastExists`, of the library's
well-founded orders), and `ReadDefined` and its like show first, by the same
means, that the recursive function exists.

Only model-checked: `CallsEnd`, a liveness property under fairness; the
properties of the five violation runs, which do not hold; and of the properties
of `Surfaces` `InstallationIsHonest`, whose three modules are folds and
concatenations over candidates, trees and edges throughout. The one refinement
here (`ImplementsOneShot`) is both checked and proved.

## 6. Disagreements and things to know

The five violation runs and what they contradict are under `findings`. What
follows was met while modelling and has no run of its own.

- A cancel whose marks both fail, the lock being busy, or whose token ran out on
  the way still reports `CANCELLED` without any mark; the nonce stays
  confirmable (`src/upstream/actions/confirm.ts:173`). `CancelBlocksClaim` is
  therefore about marks and not about answers.
- A claim is granted after its token has expired when the process read the clock
  in time and waited for the lock since (`ledger.ts:760`, then 765); an expired
  entry is dropped only by a transaction that reads a later clock.
- Registering into a full confirmation ledger drops a finished entry or
  somebody's registered token (`ledger.ts:721` counts only registered ones).
- The recovery engine takes no lock. With `Concurrent = TRUE` each property
  of a repair but its types fails, within two overlapping applies of one file.
- One `session.json` serves all files of a target root, so that after the second
  repair the first one cannot be rolled back; and a death between the rename
  and the session (`src/core/recovery/engine.ts:1478`) leaves a repair that no
  session names, though its backup is there.
- `atomicReplaceFile` compares device, inode and size (`atomic-write.ts:176`):
  an edit in place that keeps the size passes.
- The lifecycle ledger has no lock either: an overlapping `supersedeRecipe` can
  overwrite the evidence the other has just stored without the conflict being
  seen.
- Of checkpoints recorded in the same millisecond the older are kept; one
  recorded after the clock was set back may be pruned at once.
- A witness advances before the ledger is saved, by the canary and by
  `supersedeRecipe`: after a failed save the retry is refused.
- Of follow-up events only the last digest of an issue is remembered: A, B, A
  handles A twice (`src/upstream/followup/engine.ts:677`). A duplicate that
  names its own issue renews the subscription with every replay.

*Plugin-cache repair.*

- A write that fails, or a process that dies, between the two renames of
  `renameToQuarantine` (`atomic-write.ts:329`) leaves no cache file, and
  `restoreFromBackup` refuses a target that is missing: neither the error path
  nor a rollback brings it back. The bytes are in the quarantine and the
  backup (`BytesKept`).
- A rollback overwrites what it finds without a backup (`restoreFromBackup`,
  `engine.ts:2098`): an edit of the cache made after the apply, or what a
  reconciliation put there, is lost. `BytesKept` is about the bytes the apply
  found; of the others it promises nothing (`EditUndone` shows the like for the
  single file).
- `verifyRepair` runs the reconciliation cycle and may rewrite its target,
  though its answer says `target_mutated: false`.

*Config repair* (`config-repair.ts`, `validate.ts`).

- Removing a one-name key also removes keys of that name inside sections
  (`config-repair.ts:411-425`: to take `model` out of the override it takes
  `model = true` out of `[features]` too), and a dotted two-name line goes
  whatever section it stands in. The comment at line 396 says "a top-level or
  section key line"; the verification notices neither and the repair is
  reported `RESOLVED_VERIFIED`. `RepairIsExact` holds where no other key of the
  file ends in the name; `RepairByName` says what may go with it elsewhere. Both
  cases occur in the run.
- A `shell_environment_policy.set` of the wrong type in the override is
  previewed as a capsule for the primary with the override's hash and text, so
  that its apply is always refused. A target with two faults is always refused
  after the edit. `set = { A = "x" }` is "Unknown config path".
- A file whose only line is removed has an empty `next_text`, which is taken
  for "not applicable".

*Evidence, impact, pages.*

- A bundled item that has been relabelled stale no longer binds an official fix.
- `matchers.ts:304` says of the surface rejection "(and no other positive
  intersection)"; the code looks only at whether the change names settings or
  components, so that a change for another surface is rejected, and its hits
  are dropped from the card and the graph, though it met the version installed
  here, its platform or an alias. `RejectionLosesNoSetting` says exactly that:
  nothing but those three kinds is lost, and each of them is lost in the run.
- Rows for unmapped changes are never capped, the edges are, silently. A hit of
  a plugin, skill, MCP server or hook is counted a second time as a feature.
- The identifiers of a bundled snapshot are neither hashed nor checked to be
  unique.
- A fenced block and its lines are commands of their own: where the block is
  refused, an eligible line in it stays eligible. `platform.openai.com` is out
  of scope even about Codex. A page's `metadata.host` precedes the host of its
  url and is not in its digest.
- The model's preference adds three hundredths to a crash-family score before
  the thresholds (`crash-family.ts:527`), though the comments above it and at
  line 639 and `docs/ARCHITECTURE.md:196` say that it only reranks what
  survives and cannot carry a score past the gates. It makes a candidate of an
  entry that is none without it (33762, with the complex login page, the in-app
  browser, one session and the phase navigation: 52, then 55), and it lifts a
  candidate with a single mark of 32683 from 81 to 84, hence to
  `HIGH_CONFIDENCE_MATCH`. `PreferenceAddsThree` says how far this goes: what a
  preference lifted over a threshold lacked no more than three;
  `ConfidenceIsEarned` says what high confidence takes in either case. Since the
  sum is capped at 95, a preference can also lower a score.

*Instances and local update.*

- `resolve.ts:131` says "No path evidence: version-only only identifies…", yet
  the branch is also taken where a path was observed that matched nothing.
- One app alias on Windows may be enumerated under two spellings. A directory of
  `PATH` that is a link is skipped, though a shell would use it.
- A first baseline whose measurement was cut short is told as the first.
- `measureNamedFile` returns a gap rather than nothing, so that rows `added` and
  `removed` never occur; only the status tells that a difference of lists cut
  short may be none. Version and identity of the staged update are read at
  discovery and not again.

*Platform and demo.*

- `detectAdapterHint` is never nullish, so the default status is `unknown` and
  read-only whenever no adapter is given (`platform/status.ts`).
- A receipt of a failing macOS run whose isolation was proved is refused by the
  process that made it (`live_attestation_mismatch`) and accepted by others.
- The previews of a protected process and of a plugin cache do not ask for the
  managed policy.
- The demo's best-effort rollbacks (`run-demo.ts:749`, 785, 813, 833, 853) do
  not re-prove the target, though lines 343-348 say that every write does: after a
  swap of the root one of them writes through the link. `WritesToItsOwn` is
  about the writes the demo means, and those stray only in the window between
  the proofs and the write (also in the model), which no check of the code can
  close. Three ends call no rollback at all (`NOT_DISPOSABLE` at the rollback,
  `APPLY_HASH_UNCHANGED`, `DEMO_INTERNAL_ERROR`) and leave the repair in a
  caller's root, where a second demo fails; a best-effort rollback that fails
  does too. `NotLeftRepaired` names them all. A budget exceeded at the end
  leaves `resolved_verified` true of a repair that was rolled back. A temporary
  root that can be neither proved nor removed is reported as cleaned.

*Upstream and follow-up.*

- The id of a matched issue leaves in a blocked capsule without quarantine.
  Nested names of a doctor report are neither scanned nor redacted. A
  candidate's url is case-insensitive in `request.ts` and not in
  `manifest.ts`, and is never compared with its id.
- The fake remote's `timeout_found` makes up a receipt of `create_issue`, and
  the confirmation does not compare what a query returns with its binding.
- A follow-up event refused for an instruction is nevertheless recorded and may
  move or end the subscription; delivered again it is answered `ok`.
- A regression is answered `ACTIVE_WORKAROUND` even of a superseded recipe, and
  `target_mutated: false` though the canary was saved. Where a supersession is
  refused after its canary, `RECOMMEND_UPGRADE` stays in the ledger while the
  answer says nothing of it.

*Server and command line.*

- A frame `null` is read outside the `try` of the server and ends it.
- Of repeated `--disclose-*` the last wins; of repeated `--hook-trust` and
  `--state-dir` the first, and later ones are not checked. An empty positional
  and an odd decision are refused by the server and passed on by the command
  line. A core that throws after it changed something is told as
  `target_mutated: false` (`main.ts:1935`).
- The server's follow-up `refresh` takes a `disclosure_decision` it does not
  advertise, and optional lifecycle arguments of a wrong type are dropped.

## 7. Not modelled

- **Release and packaging scripts** (`src/scripts`): build tooling that runs
  once per release over files nobody else changes; a fifth of the repository's
  lines, none of the running program. The one component without a module.
- Of modelled components: the injected inventory and the binding of a repair to
  an instance (`src/instances`); the hand-off document and the bounded
  discovery of the platform reports, which list what was measured; the
  tokeniser of `measure.ts` (an artifact is its digest and its shim blocks);
  the A/B evaluation and the version-rollback previews of the lifecycle; the
  stdio client; what the hook adds to its notice; what each harness scenario
  does inside (an outcome here).
- Everywhere: wording, redaction patterns, clipping and layout; quoting and
  escapes inside a line of TOML; MACs and digests, which are what they are
  taken over. Text is the set of what the patterns find in it, so whether a
  pattern finds what it should is not a question these models ask.

Components whose status in `PROJECT.json` is `partly` name what is missing.
