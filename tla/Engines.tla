------------------------------ MODULE Engines -------------------------------
(***************************************************************************)
(* The classes of the repository that stand alone, each with the threads,  *)
(* processes or callers that use it.  They share no state, so a behaviour  *)
(* is about one of them: `engine` says which, and the others stand still.  *)
(* A property is one promise, asked of every class that makes it.          *)
(***************************************************************************)
EXTENDS LimitKeepers

CONSTANTS
  \* AuditBuses
  Publishers, BusSubjects, BusMaxTime, BusMaxEvents, Retention, BusSize, MaxRoles,
  \* CausalLog
  CausalNodes, CausalThreads, NodeOf, CausalMaxEvents,
  \* FileChain
  Procs, ChainMaxLines,
  \* FamilyCouncil
  CouncilDecisions, Members, Proposer, Consent, Info, Custom, Domain, CouncilWorkers, MaxFiles,
  \* BatchProcessor
  BatchTotal, Chunk, MaxFailures,
  \* Deduplication
  Clients, Events, DedupTTL, MaxActive, DedupMaxTime, MaxStep,
  \* ChaosCampaign
  CampaignSlots, Target, Modes, Intensities, CampaignDecisions, Protects, CampaignTTL,
  MaxInjected,
  \* HotelBookings
  HotelIds, Nights, MaxRooms, MaxBill,
  \* NginxCluster
  Configs, Validators, NginxThreshold, NginxVerdicts, MaxVotes, Cluster, NginxCallers,
  NginxMaxRuns, MaxNesting, MaxTokens,
  \* Cells
  CellIds, Tokens, CellThreshold, CellOffset, MaxScore, Readers, CellMaxEvents, PageSize,
  Neighbors, CellCritical, Grain, MaxLoad, Hotels, CellMaxLines,
  \* Tenants
  TenantWorkers, MaxTrail, Radii, Counts, K, MaxPolicies

\* An intensity is a percentage, a mode one of the six; radii are numbers.
CampaignAssumption ==
  /\ Intensities \subseteq 0..100
  /\ Modes \in Seq({"slot_crash", "token_starvation", "network_partition", "byzantine_fault",
                    "governance_drift", "heartbeat_timeout"})
  /\ None \notin [step : Nat, judged : SUBSET CampaignDecisions]
RadiiAssumption == Radii \subseteq Int
ASSUME EngineAssumptions == CampaignAssumption /\ RadiiAssumption

VARIABLES
  \* five audit and event buses
  now, stamped, count, busEvents, stats, last, anchor, overflowed, gone, busOvertaken,
  \* CausalEventLog
  causalClock, causalPending, counter, log, known, readings,
  \* hash chains in files
  file, tail, accident,
  \* the family's council and its veto collector
  seq, submitted, files, councilTable, councilAudit, work, excused, councilVotes, councilRecord,
  \* BatchProcessor
  batchStatus, runner, batchIndex, chunkEnd, results, pausing, cancelling, late,
  \* five deduplication engines
  dedupClock, stepped, reading, dedupOvertaken, records, born, answer,
  \* SAE chaos campaign
  slot, injected, campaignProtected, outside, campaign, vetoed,
  \* eight booking adapters
  hotelLeft, pushed, surplus, hotelBookings, took, bill, token, room,
  \* configuration quorum, distribution, parser
  nginxVotes, cast, approved, running, nginxCurrent, previous, proven, nginxJob, begun, depth,
  nginxPending, opened, nginxVerdict,
  \* the cell layer
  stage, score, shield, inside, snapshots, cascades, phase, path, cellEvents, appended, cursor,
  seen, reused, loads, falling, given, consent, cellTrail, lost,
  \* tenants: lifecycle, approval, sharing
  tenantRow, tenantTrail, object, overlap, cut, request, policies

Buses == INSTANCE AuditBuses WITH
  Subjects <- BusSubjects, MaxTime <- BusMaxTime, MaxEvents <- BusMaxEvents, Size <- BusSize,
  events <- busEvents, overtaken <- busOvertaken
Causal == INSTANCE CausalLog WITH
  Nodes <- CausalNodes, Threads <- CausalThreads, MaxEvents <- CausalMaxEvents,
  clock <- causalClock, pending <- causalPending
Chains == INSTANCE FileChain WITH
  MaxLines <- ChainMaxLines
Council == INSTANCE FamilyCouncil WITH
  Decisions <- CouncilDecisions, Workers <- CouncilWorkers, table <- councilTable,
  audit <- councilAudit, votes <- councilVotes, record <- councilRecord
Batch == INSTANCE BatchProcessor WITH
  Total <- BatchTotal, status <- batchStatus, index <- batchIndex
Dedup == INSTANCE Deduplication WITH
  TTL <- DedupTTL, MaxTime <- DedupMaxTime, clock <- dedupClock, overtaken <- dedupOvertaken
Campaign == INSTANCE ChaosCampaign WITH
  Slots <- CampaignSlots, Decisions <- CampaignDecisions, TTL <- CampaignTTL,
  protected <- campaignProtected
Hotel == INSTANCE HotelBookings WITH
  Ids <- HotelIds, left <- hotelLeft, bookings <- hotelBookings
Nginx == INSTANCE NginxCluster WITH
  Threshold <- NginxThreshold, Verdicts <- NginxVerdicts, Callers <- NginxCallers,
  MaxRuns <- NginxMaxRuns, votes <- nginxVotes, current <- nginxCurrent, job <- nginxJob,
  pending <- nginxPending, verdict <- nginxVerdict
Cell == INSTANCE Cells WITH
  Threshold <- CellThreshold, Offset <- CellOffset, MaxEvents <- CellMaxEvents,
  Critical <- CellCritical, MaxLines <- CellMaxLines, events <- cellEvents, trail <- cellTrail
Ten == INSTANCE Tenants WITH
  Workers <- TenantWorkers, trail <- tenantTrail

-----------------------------------------------------------------------------
Init ==
  /\ engine \in UNION {Buses!Engines, Causal!Engines, Chains!Engines, Council!Engines,
                       Apaleo!Engines, Bus!Engines, Flow!Engines, Buckets!Engines,
                       Batch!Engines, Dedup!Engines, Sagas!Engines, Over!Engines, Roll!Engines,
                       Homeo!Engines, Faults!Engines, Campaign!Engines, Hotel!Engines,
                       Guests!Engines, Nginx!Engines, Shards!Engines, Cell!Engines,
                       Signal!Engines, Ten!Engines}
  /\ KeepersInit
  /\ Buses!Start /\ Causal!Start /\ Chains!Start /\ Council!Start /\ Batch!Start
  /\ Dedup!Start /\ Campaign!Start /\ Hotel!Start /\ Nginx!Start /\ Cell!Start
  /\ Ten!Start

busesVars == <<now, stamped, count, busEvents, stats, last, anchor, overflowed, gone,
               busOvertaken>>
causalVars == <<causalClock, causalPending, counter, log, known, readings>>
chainsVars == <<file, tail, accident>>
councilVars == <<seq, submitted, files, councilTable, councilAudit, work, excused,
                 councilVotes, councilRecord>>
batchVars == <<batchStatus, runner, batchIndex, chunkEnd, results, pausing, cancelling, late>>
dedupVars == <<dedupClock, stepped, reading, dedupOvertaken, records, born, answer>>
campaignVars == <<slot, injected, campaignProtected, outside, campaign, vetoed>>
hotelVars == <<hotelLeft, pushed, surplus, hotelBookings, took, bill, token, room>>
nginxVars == <<nginxVotes, cast, approved, running, nginxCurrent, previous, proven, nginxJob,
               begun, depth, nginxPending, opened, nginxVerdict>>
cellVars == <<stage, score, shield, inside, snapshots, cascades, phase, path, cellEvents,
              appended, cursor, seen, reused, loads, falling, given, consent, cellTrail, lost>>
tenVars == <<tenantRow, tenantTrail, object, overlap, cut, request, policies>>

Next ==
  /\ KeepersNext
  /\ IF engine \in Buses!Engines THEN Buses!Next ELSE UNCHANGED busesVars
  /\ IF engine \in Causal!Engines THEN Causal!Next ELSE UNCHANGED causalVars
  /\ IF engine \in Chains!Engines THEN Chains!Next ELSE UNCHANGED chainsVars
  /\ IF engine \in Council!Engines THEN Council!Next ELSE UNCHANGED councilVars
  /\ IF engine \in Batch!Engines THEN Batch!Next ELSE UNCHANGED batchVars
  /\ IF engine \in Dedup!Engines THEN Dedup!Next ELSE UNCHANGED dedupVars
  /\ IF engine \in Campaign!Engines THEN Campaign!Next ELSE UNCHANGED campaignVars
  /\ IF engine \in Hotel!Engines THEN Hotel!Next ELSE UNCHANGED hotelVars
  /\ IF engine \in Nginx!Engines THEN Nginx!Next ELSE UNCHANGED nginxVars
  /\ IF engine \in Cell!Engines THEN Cell!Next ELSE UNCHANGED cellVars
  /\ IF engine \in Ten!Engines THEN Ten!Next ELSE UNCHANGED tenVars

vars == <<keepersVars, busesVars, causalVars, chainsVars, councilVars, batchVars, dedupVars,
          campaignVars, hotelVars, nginxVars, cellVars, tenVars>>

Spec == Init /\ [][Next]_vars

-----------------------------------------------------------------------------
(* Properties *)

\* The records agree with what happened: counters with events, clocks with causes, chains
\* with their files, votes with the audit, the blackboard with its readers, consent with its
\* log; what is deleted is what may be.
RecordsTrue ==
  /\ Buses!FreshKept /\ Buses!Accounted /\ Buses!VerifiedUnlessTrimmed
  /\ Causal!ClockMatchesCausality /\ Causal!CausesListedFirst
  /\ Chains!VerifiesUpToAccident /\ Chains!AccidentIsSeen
  /\ Council!FinalizedIsAudited /\ Council!VetoHeard /\ Council!AcceptedVoteCounts
  /\ Roll!AuditGapless /\ Buckets!AuditAddsUp
  /\ Cell!DiesOnceOnRecord /\ Cell!NothingMissed /\ Cell!ConsentOnRecord
  /\ Signal!RecentRemembered
  /\ Ten!TrailLeadsToRow

\* Nothing that was given to a class is lost, made twice, reported wrongly or repeated too
\* fast: items of a batch, steps and retries of a saga, duplicates, payments, rooms, keys,
\* loads.
WorkAccounted ==
  /\ Batch!BatchAccounted /\ Batch!CancelStopsSoon
  /\ Sagas!StatusTellsEffect /\ Sagas!OutcomeTrue /\ Sagas!DelaysGrow
  /\ Dedup!WindowFixed /\ Dedup!FailsOnlyOvertaken
  /\ Guests!ChargedOnce /\ Guests!EmailUnique
  /\ Hotel!RoomsAccounted
  /\ Shards!KeysConserved /\ Cell!LoadConserved

\* Decisions are sound: traffic is moved only for a cause, to a target that was healthy, to
\* the hotel it is for, to the share of users a rollout or its emergency stop says; a quorum
\* is one of distinct voters, an answer once given stands, an action goes against the drift,
\* what is protected is spared, what is not understood stops, more risk gets no milder verdict.
DecisionsSound ==
  /\ Over!FailoverForCause /\ Over!CircuitForCause
  /\ Bus!RoutedToHealthy /\ Bus!ConsensusFinal
  /\ Apaleo!OwnHotelOnly /\ Apaleo!OpensAtThreshold
  /\ Roll!WholeAndNone /\ Roll!EmergencyHolds /\ Roll!RolledBackForGood /\ Roll!OverrideKept
  /\ Homeo!DirectionRight /\ Homeo!AlarmsSound
  /\ Faults!ScenarioKnown /\ Campaign!HealthInRange /\ Campaign!ProtectionHolds
  /\ Nginx!RecordedIsProven /\ Nginx!AcceptedIsBalanced
  /\ Shards!ProtectedPodsLive
  /\ Signal!LoneDfNeverActs /\ Signal!BestKept
  /\ Ten!RiskNeverHelps

\* What has ended or was decided stays so, and a state is left only in the ways there are:
\* a batch, a canary, a booking, a healing, a settled policy, an incident, a permission.
EndsForGood ==
  /\ Batch!EndedForGood
  /\ Roll!DecidedForGood
  /\ Hotel!BookingsEnd
  /\ Ten!PolicyStands
  /\ [][Cell!HealingEnds]_cellVars
  /\ [][Signal!PolicySettles /\ Signal!IncidentHolds]_signalVars
=============================================================================
