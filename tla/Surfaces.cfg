SPECIFICATION Spec
CONSTANTS
  None = None
  NoState = NoState
  Unreadable = Unreadable
  Instances = {"cli", "app"}
  Candidate <- TwoPlaces
  Contents = {"old", "new"}
  MaxVersion = 2
  MaxChanges = 1
  MaxCrashes = 1
  Lists <- RawLists
  LocalFields = {"surface", "config_keys"}
  Wanted = {"v1", "v2"}
  Times = {0, 1, 2, 3, 4, 5, 6, 7}
  Clock = 5
  Skew = 1
  Low = 2
  Medium = 3
  High = 4
  MaxItems = 2
  MaxBytes = 2
  MaxInput = 7
  CliRequests <- CliAsked
  GateRequests <- GateAsked
  PathNames = {"tmp", "new", "w", "d", "home", ".codex", "p", "data", "usr", "mnt", "c", "gone"}
  Scenarios = {"core", "config", "smoke"}
  Smoke = "smoke"
  Critical = {"s1", "s2"}
  MaxTouch = 2
  DiagnosisRequests <- DiagnosisAsked
  ConfigRequests <- ConfigAsked
  KeyOrder <- KeysInOrder
  MaxKeys = 4
  MaxTables = 2
  MaxPreviews = 2
  CapsuleRequests <- Asked
  Attachments <- Manifests
  MaxTokens = 2
  BundledForms <- Shipped
  FreshDays = 7
  MaxSkew = 1
  MaxDoctorKeys = 2
  ReplyRequests <- ReplyAsked
  UpdateRequests <- UpdateAsked
  MaxSessions = 2
  MaxDownloads = 2
  MaxCandidates = 2
  MaxFile = 5
  MaxScan = 14
  MaxNodes = 3
  MaxDepth = 1
  MaxListed = 2
  MaxNative = 2
  MaxPickle = 20
  MaxJson = 10
  NodeNames <- ThreeNames
  PlaceRequests <- PlaceAsked
  Observations <- Seen
  Parent <- StandsIn
  Bundle <- BelongsTo
  ImpactRequests <- ImpactAsked
  Bucket <- OneIsAPlugin
  MaxEdges = 4
  PageRequests <- PageAsked
  AccountHosts = {"chatgpt.com"}
  MaxCommands = 3
  MaxToken = 2
INVARIANTS
  ScanIsHonest
  EvidenceIsSound
  McpIsExact
  DemoIsHonest
  WritesAreGated
  SupportIsEarned
  DiagnosisIsMeasured
  ConfigRepairsAreExact
  SubmissionsAreEarned
  RepliesAreMeasured
  InstallationIsHonest
PROPERTY NoSilentChange
CHECK_DEADLOCK FALSE
