SPECIFICATION Spec
CONSTANTS
  None = None
  Publishers = {"p1", "p2"}
  BusSubjects = {"a", "b"}
  BusMaxTime = 1
  BusMaxEvents = 3
  Retention = {0, 1}
  BusSize = 2
  MaxRoles = 1
  CausalNodes = {"n1", "n2"}
  CausalThreads = {"t1", "t2", "t3"}
  NodeOf <- MCNodeOf
  CausalMaxEvents = 4
  Procs = {"p1", "p2"}
  ChainMaxLines = 3
  CouncilDecisions = {"d1"}
  Members = {"m1", "m2"}
  Proposer <- MCProposer
  Consent <- MCConsent
  Info <- MCInfo
  Custom = {"m2"}
  Domain = {"m1"}
  CouncilWorkers = {"w1", "w2"}
  MaxFiles = 2
  ApaleoThreads = {"t1", "t2"}
  HotelOf <- MCHotelOf
  ApaleoMaxRetries = 1
  MaxBookings = 1
  ApaleoThreshold = 2
  Timeout = 2
  DfDfs = {"d1", "d2"}
  Capable = {"d1", "d2"}
  Senders = {"s1"}
  Life = 0
  DfTTL = 0
  MaxSent = 1
  DfHalf <- MCDfHalf
  VoteTime = 1
  FlowCallers = {"c1", "c2"}
  Global = "global"
  KeysOf <- MCKeysOf
  FlowWindow = 3
  MinSpan = 1
  FlowLimit = 1
  Base = 4
  FlowLeast = 2
  Most = 6
  MaxDepth = 1
  MaxItems = 3
  BucketFull = 2
  Rate = 1
  BucketMaxTime = 3
  MaxBack = 1
  MaxUse = 4
  BucketWorkers = {"w1", "w2"}
  BucketKinds = {"tokens", "cpu", "memory"}
  Budget <- MCBudget
  IoCap = 1
  IoWindow = 1
  BatchTotal = 5
  Chunk = 2
  MaxFailures = 1
  Clients = {"c1", "c2"}
  Events = {"e1", "e2"}
  DedupTTL = 2
  MaxActive = 1
  DedupMaxTime = 3
  MaxStep = 1
  Order <- MCOrder
  DependsOn <- MCDependsOn
  Compensable = {"s1", "s2"}
  SagaMaxRetries = 1
  SagaCallers = {"t1", "t2"}
  SagaMaxAttempts = 4
  BaseDelay = 2
  MaxDelay = 7
  Primary = "n1"
  Standbys <- MCStandbys
  OverThreshold = 2
  Interval = 1
  OverCallers = {"t1", "t2"}
  MaxPriority = 2
  Bucket <- MCBucket
  Percents = {0, 50, 100}
  Matching <- MCMatching
  RollCallers = {"c1"}
  MaxAudit = 2
  RollSchedule <- MCRollSchedule
  MinSamples = 2
  MaxWindow = 2
  Cooldown = 1
  Drifts <- MCDrifts
  RollbackAt = 5
  PromoteAt = 2
  MinRuns = 2
  RollMaxRuns = 3
  HomeoSubjects = {"a", "b"}
  Setpoints <- MCSetpoints
  Values <- MCValues
  HomeoWindow = 2
  HomeoHalf = 25
  Mild = 50
  HomeoCritical = 100
  ChaosTargets = {"x1"}
  ChaosThreads = {"t1", "t2"}
  MaxConcurrent = 1
  MaxHistory = 2
  ChaosIds = {"i1", "i2"}
  ChaosFull = 3
  Decays = {1, 2}
  ChaosMaxAttempts = 2
  MaxSchedule = 2
  CampaignSlots = {"s1"}
  Target = "s1"
  Modes <- MCModes
  Intensities = {40, 100}
  CampaignDecisions = {"d1", "d2"}
  Protects = {"d1"}
  CampaignTTL = 1
  MaxInjected = 2
  HotelIds = {"b1", "b2"}
  Nights = {1, 2}
  MaxRooms = 2
  MaxBill = 2
  GuestIds = {1, 2}
  GuestKeys = {"k1", "k2"}
  Emails = {"e1", "e2"}
  Channels = {"c1", "c2"}
  Unknown = {"c2"}
  GuestThreads = {"t1", "t2"}
  Amount = 2
  MaxRefunds = 3
  GuestLimit = 1
  Minute = 1
  GuestMaxTime = 3
  Configs = {"c1", "c2"}
  Validators = {"v1", "v2"}
  NginxThreshold = 2
  NginxVerdicts = {"accept"}
  MaxVotes = 4
  Cluster = 2
  NginxCallers = {"t1"}
  NginxMaxRuns = 2
  MaxNesting = 2
  MaxTokens = 4
  ShardSlots = 4
  MinSlots = 1
  SlotOf <- MCSlotOf
  LoadAt = 2
  MinHalf = 1
  MaxShards = 4
  ShardThreads = {"t1", "t2"}
  Pods = {"p1", "p2"}
  MaxPods = 1
  CellIds = {"c1", "c2"}
  Tokens = {"k1"}
  CellThreshold = 3
  CellOffset <- MCCellOffset
  MaxScore = 6
  Readers = {"r1"}
  CellMaxEvents = 4
  PageSize = 1
  Neighbors <- MCNeighbors
  CellCritical = 64
  Grain = 64
  MaxLoad = 256
  Hotels = {"h1", "h2"}
  CellMaxLines = 1
  SignalDfs = {"d1", "d2"}
  MinDfs = 2
  Strong = 3
  SignalRecent = 1
  SignalMaxTime = 2
  MaxSignals = 2
  Writers = {"w1", "w2"}
  Spiral = 2
  Refractory = 2
  Scores = {15, 25, 32, 38, 45, 55, 70, 90}
  SignalSize = 2
  Fitness = {0, 1, 2}
  TenantWorkers = {"w1", "w2"}
  MaxTrail = 2
  Radii = {0, 100, 5000}
  Counts = {0, 5}
  K = 5
  MaxPolicies = 2
INVARIANTS
  RecordsTrue
  LimitsHold
  WorkAccounted
  DecisionsSound
PROPERTIES
  EndsForGood
