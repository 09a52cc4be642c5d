---------------------------- MODULE LimitKeepers ----------------------------
(***************************************************************************)
(* The classes of the repository that keep a limit: on orders in flight,   *)
(* tokens, calls, attempts, experiments, messages, pods; and those that    *)
(* act at one: so many failures before traffic moves or a circuit opens,   *)
(* so many percent of the users, so many votes, so far from a setpoint.    *)
(* They share no state, so a behaviour is about one of them: `engine` says *)
(* which, and the others stand still.                                      *)
(***************************************************************************)
EXTENDS Integers, Sequences, FiniteSets

CONSTANTS
  None,
  \* ApaleoAdapter
  ApaleoThreads, HotelOf, ApaleoMaxRetries, MaxBookings, ApaleoThreshold, Timeout,
  \* DfBus
  DfDfs, Capable, Senders, Life, DfTTL, MaxSent, DfHalf, VoteTime,
  \* FlowControl
  FlowCallers, Global, KeysOf, FlowWindow, MinSpan, FlowLimit, Base, FlowLeast, Most, MaxDepth,
  MaxItems,
  \* TokenBuckets
  BucketFull, Rate, BucketMaxTime, MaxBack, MaxUse, BucketWorkers, BucketKinds, Budget, IoCap,
  IoWindow,
  \* StepSagas
  Order, DependsOn, Compensable, SagaMaxRetries, SagaCallers, SagaMaxAttempts, BaseDelay,
  MaxDelay,
  \* Failover
  Primary, Standbys, OverThreshold, Interval, OverCallers, MaxPriority,
  \* Rollouts
  Bucket, Percents, Matching, RollCallers, MaxAudit, RollSchedule, MinSamples, MaxWindow,
  Cooldown, Drifts, RollbackAt, PromoteAt, MinRuns, RollMaxRuns,
  \* Homeostasis
  HomeoSubjects, Setpoints, Values, HomeoWindow, HomeoHalf, Mild, HomeoCritical,
  \* Chaos
  ChaosTargets, ChaosThreads, MaxConcurrent, MaxHistory, ChaosIds, ChaosFull, Decays,
  ChaosMaxAttempts, MaxSchedule,
  \* GuestServices
  GuestIds, GuestKeys, Emails, Channels, Unknown, GuestThreads, Amount, MaxRefunds, GuestLimit,
  Minute, GuestMaxTime,
  \* ShardsAndPods
  ShardSlots, MinSlots, SlotOf, LoadAt, MinHalf, MaxShards, ShardThreads, Pods, MaxPods,
  \* Signals
  SignalDfs, MinDfs, Strong, SignalRecent, SignalMaxTime, MaxSignals, Writers, Spiral,
  Refractory, Scores, SignalSize, Fitness

\* Threads and targets are finitely many.  Limits, thresholds and windows are numbers, and
\* positive where the constructors say so; a bucket and a percentage are what they say, a
\* severe drift is more than a mild one; None is none of the values it stands for.
FlowAssumption ==
  /\ IsFiniteSet(FlowCallers) /\ Global # None
  /\ {FlowWindow, MinSpan, FlowLimit} \subseteq Nat \ {0}
  /\ {Base, FlowLeast, Most, MaxDepth} \subseteq Nat /\ Base <= Most
BucketAssumption ==
  {BucketFull, Rate, IoCap, IoWindow} \subseteq Nat /\ Budget \in [BucketKinds -> Nat]
SagaAssumption == 1 \in DOMAIN Order /\ SagaMaxAttempts \in Nat \ {0}
RunResults == {"running", "ok", "failed", "recorded", "killed", "out_ok", "out_failed"}
ChaosAssumption ==
  /\ IsFiniteSet(ChaosThreads) /\ MaxConcurrent \in Nat
  /\ {MaxHistory, ChaosMaxAttempts} \subseteq Nat \ {0}
  /\ None \notin [target : ChaosTargets, id : ChaosIds, result : RunResults]
GuestAssumption == IsFiniteSet(GuestIds) /\ {GuestLimit, Minute} \subseteq Nat /\ None \notin Int
ShardAssumption == IsFiniteSet(ShardThreads) /\ IsFiniteSet(Pods) /\ MaxPods \in Nat \ {0}
SignalAssumption ==
  /\ Scores \subseteq Int /\ {Refractory, SignalMaxTime, MinDfs, SignalRecent} \subseteq Nat
  /\ IsFiniteSet(SignalDfs) /\ "open" \notin SignalDfs
  /\ SignalSize \in Nat \ {0} /\ Fitness \subseteq Int
OverAssumption ==
  /\ OverThreshold \in Nat \ {0}
  /\ DOMAIN Standbys = 1..Len(Standbys) /\ Len(Standbys) \in Nat
RollAssumption ==
  /\ \A u \in DOMAIN Bucket : Bucket[u] \in 0..99
  /\ Percents \subseteq 0..100 /\ RollSchedule \in Seq(0..100) /\ {Cooldown, MaxAudit} \subseteq Nat
BusAssumption == IsFiniteSet(DfDfs) /\ DfHalf.num \in Nat /\ DfHalf.den \in Nat \ {0}
ApaleoAssumption == ApaleoThreshold \in Nat \ {0}
HomeoAssumption ==
  /\ Setpoints \subseteq Int /\ Values \subseteq Int /\ HomeoWindow \in Nat \ {0}
  /\ HomeoHalf \in Int /\ Mild \in Nat \ {0} /\ HomeoCritical \in Nat /\ Mild < HomeoCritical
ASSUME Assumptions ==
  /\ FlowAssumption /\ BucketAssumption /\ SagaAssumption /\ ChaosAssumption
  /\ GuestAssumption /\ ShardAssumption /\ SignalAssumption
  /\ OverAssumption /\ RollAssumption /\ BusAssumption /\ ApaleoAssumption
  /\ HomeoAssumption

VARIABLES
  engine,       \* the class that this behaviour is about
  \* the Apaleo adapter and its circuit breaker
  valid, apaleoCurrent, apaleoBookings, nextId, apaleoCall, touched, apaleoState, failures,
  openFor, inCall, streak,
  \* DfBus: dispatch and vote
  beat, subs, open, dfQueue, sent, task, dfHeard, shunned, ballot, dfAge, answered,
  \* backpressure, slot admission, overflow guard, throttle
  buffer, flow, flowVerdict, blurred, level, capacity, flowQueue, offered, accepted, drained,
  \* token buckets and cell quotas
  tokens, wall, filled, back, granted, released, consumed, calls, apoptosed, fired, unlogged,
  logged, purged,
  \* step orchestrator, KPM saga, retry engine
  position, attempt, sagaStatus, sagaEffects, undoing, spared, failedIds, misused, progress,
  outcome, caller, done, broken, sagaHeard, delays,
  \* failover routers and the hot switch
  fails, overState, overActive, cause, grade, brokers, routed, circuit, overAge, overTally,
  overCall,
  \* flags and canaries
  rule, variants, asked, told, rollState, rollout, tripped, rollAudit, traffic, step,
  rolledBack, window, since, override, wanted, rollStatus, sum, rollRuns,
  \* seven homeostasis controllers
  setpoint, samples, custom, decision, unsent,
  \* chaos engines
  handlers, paused, chaosActive, chaosRuns, outcomes, chaosIndex, stability, schedule, turn,
  chaosTally,
  \* payment, CRM, mail and messaging adapters
  intents, charges, refunds, keys, guestEffects, contacts, deals, guestClock, read, stamps,
  sentAt, guestStatus, lists, suppressed, guestTable, guestLeft,
  \* redis division, pods
  shards, lastId, kv, shardJob, pods, shardProtected, admitted, slain, revived,
  \* signals between cells, control of the whole
  signalClock, pool, latest, gate, logs, pen, made, policy, before, mode, forced, switchedAt,
  reacting, hasty, month, population, best, signalRecord

Apaleo == INSTANCE ApaleoAdapter WITH
  Threads <- ApaleoThreads, MaxRetries <- ApaleoMaxRetries, Threshold <- ApaleoThreshold,
  current <- apaleoCurrent, bookings <- apaleoBookings, call <- apaleoCall,
  state <- apaleoState
Bus == INSTANCE DfBus WITH
  Dfs <- DfDfs, TTL <- DfTTL, Half <- DfHalf, queue <- dfQueue, heard <- dfHeard, age <- dfAge
Flow == INSTANCE FlowControl WITH
  Callers <- FlowCallers, Window <- FlowWindow, Limit <- FlowLimit, Least <- FlowLeast,
  verdict <- flowVerdict, queue <- flowQueue
Buckets == INSTANCE TokenBuckets WITH
  Full <- BucketFull, MaxTime <- BucketMaxTime, Workers <- BucketWorkers, Kinds <- BucketKinds
Sagas == INSTANCE StepSagas WITH
  MaxRetries <- SagaMaxRetries, Callers <- SagaCallers, MaxAttempts <- SagaMaxAttempts,
  status <- sagaStatus, effects <- sagaEffects, heard <- sagaHeard
Over == INSTANCE Failover WITH
  Threshold <- OverThreshold, Callers <- OverCallers, state <- overState, active <- overActive,
  age <- overAge, tally <- overTally, call <- overCall
Roll == INSTANCE Rollouts WITH
  Callers <- RollCallers, Schedule <- RollSchedule, MaxRuns <- RollMaxRuns, state <- rollState,
  audit <- rollAudit, status <- rollStatus, runs <- rollRuns
Homeo == INSTANCE Homeostasis WITH
  Subjects <- HomeoSubjects, Window <- HomeoWindow, Half <- HomeoHalf,
  Critical <- HomeoCritical
Faults == INSTANCE Chaos WITH
  Targets <- ChaosTargets, Threads <- ChaosThreads, Ids <- ChaosIds, Full <- ChaosFull,
  MaxAttempts <- ChaosMaxAttempts, active <- chaosActive, runs <- chaosRuns,
  index <- chaosIndex, tally <- chaosTally
Guests == INSTANCE GuestServices WITH
  Ids <- GuestIds, Keys <- GuestKeys, Threads <- GuestThreads, Limit <- GuestLimit,
  MaxTime <- GuestMaxTime, effects <- guestEffects, clock <- guestClock, status <- guestStatus,
  table <- guestTable, left <- guestLeft
Shards == INSTANCE ShardsAndPods WITH
  Slots <- ShardSlots, Threads <- ShardThreads, job <- shardJob, protected <- shardProtected
Signal == INSTANCE Signals WITH
  Dfs <- SignalDfs, Recent <- SignalRecent, MaxTime <- SignalMaxTime, Size <- SignalSize,
  clock <- signalClock, record <- signalRecord

-----------------------------------------------------------------------------
KeepersInit ==
  /\ Apaleo!Start /\ Bus!Start /\ Flow!Start /\ Buckets!Start /\ Sagas!Start
  /\ Over!Start /\ Roll!Start /\ Homeo!Start /\ Faults!Start /\ Guests!Start
  /\ Shards!Start /\ Signal!Start

apaleoVars == <<valid, apaleoCurrent, apaleoBookings, nextId, apaleoCall, touched,
                apaleoState, failures, openFor, inCall, streak>>
busVars == <<beat, subs, open, dfQueue, sent, task, dfHeard, shunned, ballot, dfAge, answered>>
flowVars == <<buffer, flow, flowVerdict, blurred, level, capacity, flowQueue, offered,
              accepted, drained>>
bucketsVars == <<tokens, wall, filled, back, granted, released, consumed, calls, apoptosed,
                 fired, unlogged, logged, purged>>
sagasVars == <<position, attempt, sagaStatus, sagaEffects, undoing, spared, failedIds,
               misused, progress, outcome, caller, done, broken, sagaHeard, delays>>
overVars == <<fails, overState, overActive, cause, grade, brokers, routed, circuit, overAge,
              overTally, overCall>>
rollVars == <<rule, variants, asked, told, rollState, rollout, tripped, rollAudit, traffic,
              step, rolledBack, window, since, override, wanted, rollStatus, sum, rollRuns>>
homeoVars == <<setpoint, samples, custom, decision, unsent>>
faultsVars == <<handlers, paused, chaosActive, chaosRuns, outcomes, chaosIndex, stability,
                schedule, turn, chaosTally>>
guestsVars == <<intents, charges, refunds, keys, guestEffects, contacts, deals, guestClock,
                read, stamps, sentAt, guestStatus, lists, suppressed, guestTable, guestLeft>>
shardsVars == <<shards, lastId, kv, shardJob, pods, shardProtected, admitted, slain, revived>>
signalVars == <<signalClock, pool, latest, gate, logs, pen, made, policy, before, mode,
                forced, switchedAt, reacting, hasty, month, population, best, signalRecord>>

KeepersNext ==
  /\ UNCHANGED engine
  /\ IF engine \in Apaleo!Engines THEN Apaleo!Next ELSE UNCHANGED apaleoVars
  /\ IF engine \in Bus!Engines THEN Bus!Next ELSE UNCHANGED busVars
  /\ IF engine \in Flow!Engines THEN Flow!Next ELSE UNCHANGED flowVars
  /\ IF engine \in Buckets!Engines THEN Buckets!Next ELSE UNCHANGED bucketsVars
  /\ IF engine \in Sagas!Engines THEN Sagas!Next ELSE UNCHANGED sagasVars
  /\ IF engine \in Over!Engines THEN Over!Next ELSE UNCHANGED overVars
  /\ IF engine \in Roll!Engines THEN Roll!Next ELSE UNCHANGED rollVars
  /\ IF engine \in Homeo!Engines THEN Homeo!Next ELSE UNCHANGED homeoVars
  /\ IF engine \in Faults!Engines THEN Faults!Next ELSE UNCHANGED faultsVars
  /\ IF engine \in Guests!Engines THEN Guests!Next ELSE UNCHANGED guestsVars
  /\ IF engine \in Shards!Engines THEN Shards!Next ELSE UNCHANGED shardsVars
  /\ IF engine \in Signal!Engines THEN Signal!Next ELSE UNCHANGED signalVars

keepersVars == <<engine, apaleoVars, busVars, flowVars, bucketsVars, sagasVars, overVars,
                 rollVars, homeoVars, faultsVars, guestsVars, shardsVars, signalVars>>

KeepersSpec == KeepersInit /\ [][KeepersNext]_keepersVars

-----------------------------------------------------------------------------
(* Properties *)

\* Limits hold, also when several callers ask before any of them acts; where they may be
\* exceeded, they are by no more than the callers account for.
LimitsHold ==
  /\ Flow!OvershootBounded /\ Flow!WithinBand
  /\ Buckets!PaidFor /\ Buckets!QuotaKept
  /\ Guests!RateKept
  /\ Faults!ChaosBounded /\ Faults!AttemptsBounded
  /\ Shards!QuotaAlmostKept
  /\ Sagas!RetriesBounded
  /\ Signal!NeverHasty /\ Signal!OncePerMonth
=============================================================================
