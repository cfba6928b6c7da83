------------------------------- MODULE Guards -------------------------------
(***************************************************************************)
(* The surfaces on whose answers the others rely: what was noticed of an   *)
(* installation, what official evidence stands for, what may be written,   *)
(* what a receipt may claim, what the demo shows of it all, what may be    *)
(* submitted upstream, what a follow-up answers, what a diagnosis or a     *)
(* page is taken for, and what becomes of the control files.               *)
(***************************************************************************)
EXTENDS Naturals, Sequences, FiniteSets

CONSTANTS
  None, NoState, Unreadable,
  Instances, Candidate, Contents, MaxVersion, MaxChanges, MaxCrashes,          \* InstanceScan
  Lists, LocalFields, Wanted, Times, Clock, Skew, Low, Medium, High, MaxItems, \* OfficialEvidence
  GateRequests, PathNames,                                                     \* PlatformGate
  Scenarios, Smoke, Critical, MaxTouch,                                        \* SupportReceipts
  CapsuleRequests, Attachments, MaxTokens,                                     \* CapsuleActions
  BundledForms, FreshDays, MaxSkew, MaxDoctorKeys,                             \* UpstreamPreview
  ReplyRequests,                                                               \* FollowupReply
  DiagnosisRequests,                                                           \* Diagnosis
  PageRequests, AccountHosts, MaxCommands, MaxToken,                           \* PageAnalysis
  ConfigRequests, MaxKeys, MaxTables, KeyOrder, MaxPreviews                    \* ConfigRepair

VARIABLES
  installed, order, content, stored, pc, job, owed, crashes, changes, \* InstanceScan
  request, run, result                                                \* the others

Scan     == INSTANCE InstanceScan
Evidence == INSTANCE OfficialEvidence WITH Versions <- Wanted, Now <- Clock
Gate     == INSTANCE PlatformGate WITH Requests <- GateRequests, Names <- PathNames
Receipts == INSTANCE SupportReceipts
DemoRun  == INSTANCE Demo
Replies  == INSTANCE FollowupReply WITH Requests <- ReplyRequests
Capsules == INSTANCE CapsuleActions WITH Requests <- CapsuleRequests, Bundled <- BundledForms
Diag     == INSTANCE Diagnosis WITH Requests <- DiagnosisRequests
Page     == INSTANCE PageAnalysis WITH Requests <- PageRequests
Config   == INSTANCE ConfigRepair WITH Requests <- ConfigRequests, MaxDepth <- MaxTables

\* What the proofs assume of the values.
ASSUME GuardsAssumption ==
  /\ Evidence!SoundEvidence /\ Gate!SoundRequests /\ Receipts!SoundSupport
  /\ Replies!SoundCalls /\ Capsules!SoundSubmissions
  /\ Diag!SoundIncidents /\ Page!SoundPages /\ Config!SoundRepairs
=============================================================================
