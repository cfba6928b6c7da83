------------------------------ MODULE Surfaces ------------------------------
(***************************************************************************)
(* The surfaces that share no state with one another, one behaviour each:  *)
(* a process serves one command, so the first state says which surface it  *)
(* is about and the others stay as they are.                               *)
(***************************************************************************)
EXTENDS Guards

CONSTANTS
  MaxBytes, MaxInput,                                                         \* McpFraming
  CliRequests,                                                                \* RescueCli
  UpdateRequests, MaxSessions, MaxDownloads, MaxCandidates, MaxFile, MaxScan, \* LocalUpdate
  MaxNodes, MaxDepth, MaxListed, MaxNative, MaxPickle, MaxJson, NodeNames,
  PlaceRequests, Observations, Parent, Bundle,                                \* Enumeration
  ImpactRequests, Bucket, MaxEdges                                            \* Impact

VARIABLES
  surface,                                                    \* the one that runs
  arrived, data, buf, discarding, overflowEmitted, out        \* McpFraming

scanVars  == << installed, order, content, stored, pc, job, owed, crashes, changes >>
frameVars == << arrived, data, buf, discarding, overflowEmitted, out >>
vars      == << surface, scanVars, frameVars, request, run, result >>

Framing  == INSTANCE McpFraming
Mcp      == INSTANCE McpTools
Cli      == INSTANCE RescueCli WITH Requests <- CliRequests
Local    == INSTANCE LocalUpdate WITH Requests <- UpdateRequests
Places   == INSTANCE Enumeration WITH Requests <- PlaceRequests
Effect   == INSTANCE Impact WITH Requests <- ImpactRequests

\* What the proofs assume of the values.
ASSUME SurfacesAssumption == Framing!SoundFrames /\ Cli!SoundLines

-----------------------------------------------------------------------------
ScanOff ==
  /\ installed = << >> /\ order = << >> /\ content = << >> /\ stored = NoState
  /\ pc = "idle" /\ job = Scan!NoJob /\ owed = FALSE /\ crashes = 0 /\ changes = 0

FramingOff ==
  /\ arrived = << >> /\ data = << >> /\ buf = << >> /\ out = << >>
  /\ discarding = FALSE /\ overflowEmitted = FALSE

Init ==
  \/ surface = "scan" /\ Scan!Init /\ FramingOff /\ request = None /\ run = None /\ result = None
  \/ surface = "framing" /\ Framing!Init /\ ScanOff /\ request = None /\ run = None /\ result = None
  \/ /\ ScanOff /\ FramingOff
     /\ \/ surface = "evidence" /\ run = None /\ Evidence!Init
        \/ surface = "mcp" /\ run = None /\ Mcp!Init
        \/ surface = "cli" /\ run = None /\ Cli!Init
        \/ surface = "gate" /\ Gate!Init
        \/ surface = "receipts" /\ Receipts!Init
        \/ surface = "diagnosis" /\ run = None /\ Diag!Init
        \/ surface = "config" /\ Config!Init
        \/ surface = "upstream" /\ Capsules!Init
        \/ surface = "followup" /\ Replies!Init
        \/ surface = "local" /\ Local!Init
        \/ surface = "places" /\ run = None /\ Places!Init
        \/ surface = "impact" /\ run = None /\ Effect!Init
        \/ surface = "page" /\ run = None /\ Page!Init
        \/ surface = "demo" /\ DemoRun!Init

Next ==
  /\ UNCHANGED surface
  /\ \/ surface = "scan" /\ Scan!Next /\ UNCHANGED << frameVars, request, run, result >>
     \/ surface = "framing" /\ Framing!Next /\ UNCHANGED << scanVars, request, run, result >>
     \/ surface = "evidence" /\ Evidence!Next /\ UNCHANGED << scanVars, frameVars, run >>
     \/ surface = "mcp" /\ Mcp!Next /\ UNCHANGED << scanVars, frameVars, run >>
     \/ surface = "cli" /\ Cli!Next /\ UNCHANGED << scanVars, frameVars, run >>
     \/ surface = "gate" /\ Gate!Next /\ UNCHANGED << scanVars, frameVars >>
     \/ surface = "receipts" /\ Receipts!Next /\ UNCHANGED << scanVars, frameVars >>
     \/ surface = "diagnosis" /\ Diag!Next /\ UNCHANGED << scanVars, frameVars, run >>
     \/ surface = "config" /\ Config!Next /\ UNCHANGED << scanVars, frameVars >>
     \/ surface = "upstream" /\ Capsules!Next /\ UNCHANGED << scanVars, frameVars >>
     \/ surface = "followup" /\ Replies!Next /\ UNCHANGED << scanVars, frameVars >>
     \/ surface = "local" /\ Local!Next /\ UNCHANGED << scanVars, frameVars >>
     \/ surface = "places" /\ Places!Next /\ UNCHANGED << scanVars, frameVars, run >>
     \/ surface = "impact" /\ Effect!Next /\ UNCHANGED << scanVars, frameVars, run >>
     \/ surface = "page" /\ Page!Next /\ UNCHANGED << scanVars, frameVars, run >>
     \/ surface = "demo" /\ DemoRun!Next /\ UNCHANGED << scanVars, frameVars >>

Spec == Init /\ [][Next]_vars

-----------------------------------------------------------------------------
(* What each surface promises, stated in its module, while it is the one.  *)

\* InstanceScan: a saved baseline is told of before the scan ends, and the
\* headline claims only what the comparison observed.
ScanIsHonest ==
  surface = "scan" => Scan!ScanIsHonest

\* InstanceScan: no notice means the whole installation is as it was stored.
NoSilentChange == Scan!NoSilentChange

\* OfficialEvidence: what is sent was approved, announced and sendable; an
\* intact bundle answers every refresh that fails; fresh and free of risk is
\* only what was just fetched; only an unchanged bundled item stands for a fix.
EvidenceIsSound ==
  surface = "evidence" => Evidence!EvidenceIsSound

\* McpFraming: what is told is what the bytes mean, whatever their chunks, and
\* no more than the limit is retained meanwhile.  McpTools: a call that follows
\* the advertised schema reaches its core, and no other call does.  RescueCli:
\* the command line reaches what the server does with the same arguments.
McpIsExact ==
  /\ surface = "framing" => Framing!FramingExact /\ Framing!RetainedBounded
  /\ surface = "mcp" => Mcp!AdvertisedIsServed /\ Mcp!ServedIsAdvertised
  /\ surface = "cli" => /\ Cli!ServedByBoth /\ Cli!SaidEitherWay
                         /\ Cli!ConsentIsTheLast /\ Cli!OneSource

\* Demo: a receipt that says ok tells the whole story, the clean-up is told as
\* it went, a run left repaired does not say it was taken back, and what the
\* demo means to write strays only in the window between its proof and the write.
DemoIsHonest ==
  surface = "demo" =>
    /\ DemoRun!OkIsTheWholeStory /\ DemoRun!CleanupIsHonest
    /\ DemoRun!NotLeftRepaired /\ DemoRun!WritesToItsOwn

\* PlatformGate: what is written is disposable or the user's, and allowed.
WritesAreGated ==
  surface = "gate" => Gate!WritesAreGated

\* SupportReceipts: full is the unedited receipt of a run this process made,
\* another claim travels, and no receipt lowers a platform or lets it write.
SupportIsEarned ==
  surface = "receipts" => Receipts!SupportIsEarned

\* Diagnosis: what is located was measured, a candidate has its mechanism, and
\* a preference does what it does in the code, which is more than reranking.
\* PageAnalysis: a page is about this problem, or leads to a repair, by what is
\* measured here, never by its prose, and is fetched only as approved.
DiagnosisIsMeasured ==
  /\ surface = "diagnosis" =>
       /\ Diag!LocatedIsMeasured /\ Diag!RefusalsClaimNothing /\ Diag!CandidatesHaveMechanism
       /\ Diag!ConfidenceIsEarned /\ Diag!PreferenceOnlyNudges /\ Diag!PreferenceAddsThree
  /\ surface = "page" =>
       /\ Page!VerdictIsEarned /\ Page!ProseGainsNothing
       /\ Page!CandidatesAreClean /\ Page!FetchedAsApproved

\* ConfigRepair: a repair takes its key and no other, unless another ends in the
\* name, which may go with it; what it says it repaired starts, and its capsule
\* is bound to what it was previewed on.
ConfigRepairsAreExact ==
  surface = "config" => /\ Config!RepairIsExact /\ Config!RepairByName
                        /\ Config!ResolvedStarts /\ Config!CapsuleIsBound

\* UpstreamPreview and CapsuleActions: what can be submitted is worth it and
\* clean, and only that is, once.
SubmissionsAreEarned ==
  surface = "upstream" =>
    /\ Capsules!DraftsAreEarned /\ Capsules!NoInstructionsOut /\ Capsules!NoSensitiveDoctor
    /\ Capsules!FormsAreOfficial /\ Capsules!TokensAreEarned /\ Capsules!ReadyIsUsable
    /\ Capsules!OneEffectEach

\* FollowupReply: what an event or a candidate makes a call answer is what was
\* measured, whatever prose and callers claim.
RepliesAreMeasured ==
  surface = "followup" =>
    /\ Replies!ProseIsData /\ Replies!DraftIsMeasured /\ Replies!AnsweredOnce
    /\ Replies!UpgradesAreMeasured /\ Replies!EvidenceStays

\* Enumeration: installations stay apart, each with evidence of its own system,
\* and one is called affected only by what was observed of it.
\* LocalUpdate: the update compared is the only one, unless the answer says
\* where the search ended; what was not read is told, the rest holds.
\* Impact: a change that is not rejected is told of by what meets it here and
\* by nothing else, in the graph as on the card, more knowledge hides none, and
\* a rejection loses nothing that meets it by a setting, component or surface.
InstallationIsHonest ==
  /\ surface = "places" =>
       /\ Places!InstallationsStayApart /\ Places!EvidenceIsOfTheSystem
       /\ Places!RankIsThePaths /\ Places!AffectedIsObserved
  /\ surface = "local" =>
       /\ Local!AmbiguityIsTold /\ Local!GapsAreTold /\ Local!ComponentsHold
       /\ Local!NativeModulesHold /\ Local!HeadersFit
  /\ surface = "impact" =>
       /\ Effect!KnowingMoreNeverHides /\ Effect!EachChangeIsItsOwn
       /\ Effect!GraphAndCardAgree /\ Effect!RejectionLosesNoSetting
=============================================================================
