# kmo-vnext: TLA+ models and proofs

This directory holds TLA+ specifications of the KMO governance layer (`src/kmo_governance`): the modules that
guard a workflow of the pipeline against crashes, concurrent processes and unreliable delivery. TLC checks each
one on a small instance. TLAPS proves the main safety properties for every value of the constants.

    tlc -workers 2 -config lease_safety.cfg LeaseManager        # a run; PROJECT.json lists all of them
    tlapm SagaEngine_proofs.tla                                 # the proofs of a component

## 1. The system

A pipeline run (`src/tests/test_pre3_e2e_full_pipeline.py:112`) classifies a request, takes a lease on the action,
has it approved, starts a durable workflow and moves it on, executes the seven phases of a saga, publishes the
result through the outbox, and releases the lease in a `finally`. The parts know nothing of each other: the
pipeline calls them one after the other, and each keeps its state in files or a SQLite database of its own.

| component (source) | state | operations | what is hard | what makes it correct |
|---|---|---|---|---|
| Lease manager (`lease_manager/`) | table `leases`, STOP flags, a heartbeat thread per call | `acquire`, `heartbeat`, `release`, `force_release_stale`, `with_lease` | autocommit statements of several processes interleave; clocks read early; late heartbeats; dead holders | one row per resource; a live lease is not taken away; holders exclude each other; dead leases are reclaimed |
| Saga engine (`saga-pattern/`) | `<run_id>-state.json`, the `SagaRun` in memory | `execute`, `resume`, `_run_loop`, `_compensate` | a crash between an effect and its record, during compensation, and several restarts | DONE means all effects, COMPENSATED none; undo runs backwards; no phase is repeated |
| Outbox (`outbox-pattern/`) | counter database and files of the producer; synced copy; `processed_events`, ack and dead-letter files of the consumer | `publish`, `republish_failed_acks`, `poll_and_process`, `move_to_dlq` | files lost or late; crashes around handler, record and ack; retries | numbers are unique; acks and dead letters tell the truth; a second run of a handler has a reason; every event is resolved |
| Durable state machine (`durable_execution/`) | `events.jsonl`, snapshots, the directory `state.lock` | `start_workflow`, `transition`, `snapshot`, `recover` | torn lines, stale locks claimed by several processes, snapshots taken while events are appended | gap-free numbers, no duplicates; a snapshot changes nothing; committed events stay |
| Approval gate (`approval-gate/`) | tables `approvals`, `deploy_locks`, `audit_chain`; the JSONL audit chain | `request_dual_approval`, `verify_token`, `revoke_token`, lock and release, `pre_deploy_atomic`, `AuditLog.append` | check-then-update on tokens; a clock read before waiting; database and file written one after the other | a token is spent once and never after revocation; one lock holder; the chain verifies |
| Data-class filter (`data_class_filter/`) | none | `classify_input` | order of rules | a secret prompt goes no further |
| Locks (`distributed_lock_manager` and its copies for KPM, SAE, Graphity, NineDots, LexVance; HeyLou's rooms; the sections of `df_graphity_verlag`) | dictionaries under an `RLock`, SQLite for sections | acquire, renew, release, force, expire | late holders with old tokens; rivals; rest periods | what was granted is not granted to another |
| Audit and event buses, causal log, hash chains, `df_bus_orchestrator`, the family's council | lists, chains, vector clocks, files, votes | publish, prune, append, verify, dispatch, vote, veto | several locks in a row; workers that die between two records | records agree with what happened |
| Flow (`backpressure*`, `adaptive_throttle`, `rate_limiter_pool`, `batch_processor`), quotas of cells | windows, levels, buckets, chunks | evaluate, record, acquire, submit, pause, cancel | check and act are two calls; wall clocks | limits hold; items are accounted for |
| Deduplication, step sagas, retries | records with a time to live; step results | check, expire, run, compensate, cancel | clock read before the lock; callers side by side | a duplicate is told; a status tells the effect |
| Failover, flags, canaries, homeostasis, chaos | circuits, rules, stages, histories | record, route, promote, set, advance, inject | state read before and used after; cooldowns | every decision has its cause |
| Cell layer (`apoptosis_engine`, `wound_healing`, `hotel_membrane`, `quorum_sensing`, `stigmergic_blackboard`, `sigma_switch`, ...) | scores, phases, pools, SQLite blackboard | signal, heal, read, vote, redistribute | signals during a cascade; readers beside writers | a cell dies once; readers miss nothing; nobody decides alone |
| Tenants (`tenant_lifecycle`, `multi_tenant_approval`, `cross_tenant_filter`) | SQLite rows and events | upsert, log, check, decide | two transactions; stale objects | the trail leads to the status |
| Hotel and service adapters | mock back ends in memory | book, modify, cancel, charge, refund, mail | retries, tokens, concurrent modification | no room is lost or sold twice; one charge per key |
| Executors for nginx, redis, k8s, SAE | votes, shard topology, pods, slots | propose, distribute, split, migrate, isolate | steps outside the lock | only what was approved and proven is recorded; keys are conserved |
| Finance models, observability, mock server, contract validator, snapshots, clock skew, df-89 | - | arithmetic, output | - | not modelled, see section 7 |

`PROJECT.json` lists every component with its sources, every hazard at its line and which property looks at it.

## 2. The modules

Every module has one action per operation or, where other processes can get in between, one per atomic step of
it. Lines marked `FAULT` define the same operator with a plausible bug; they are used by nothing but the mutants
of `PROJECT.json`, which show that the properties can tell the code from its buggy relatives.

**LeaseManager** – Processes share the table. `acquire` is `Begin`, `ReadNow`, `TryInsert`/`InsertConflict`,
`CheckToken`/`CheckMissing`, and after a conflict the purge `ReadNow`, `SelectStale`, `DeleteStale` and a second
insert: each SQL statement is a step, as connections are in autocommit mode. The heartbeat thread of
`with_lease` is `HeartbeatRead`, `HeartbeatWrite`, `HeartbeatError`; it may outlive the call (the join has a
timeout). Time is relative: a row stores the time left, a thread the age of the clock value it works with.
`Crash` covers a dying process and a sqlite error that leaves the call.

**SagaEngine** – `mem` is the `SagaRun` object, `disk` the state file, `effect` what do and undo functions did to
the world. Each write of the file, each do and undo, and each way they can fail is a step; a crash may come
between any two. The Bio hooks (admit, membranes, exit criteria) appear as the refusals they can cause.

**Outbox** – Producers take a number and write a file in two steps. The sync (external) carries files over, late
or not at all. A poll lists the files once and visits them in order; handler, record, ack, failure and dead letter
are steps of their own.

**DurableStateMachine** – One workflow. `events.jsonl` is a sequence of numbered events with possibly an
unfinished last line; a later write runs into that. The lock is free, fresh or stale. `stat`, `utime` and `rmdir`
are separate steps, which is what lets two processes claim one stale lock. A transition may raise at any point inside
the lock (`Raises`), after its append too, when the automatic snapshot cannot be written. `damage` records what the design does
not expect: an overlap of two transitions, a `start_workflow` that was late, a line that ran into another.

**ApprovalGate** – Tokens, the deploy lock and `audit_chain` change in SQLite transactions; the JSONL line is
written after the COMMIT, and may come out whole, without its newline, in part or not at all; what is written next runs
into it. `verify_token` is a SELECT and an UPDATE. The clock is read before a transaction
waits for its lock. Checks of signatures and identities look at values that never change and are left out.

**ExclusiveLease** - the abstract specification: a resource has one holder at a time, and between two holders there
is a moment without one. `LeaseManager`, `KeyedLocks` and `SectionLock` are shown to implement it, by mappings from
their rows, leases and tokens to the holder (`INSTANCE ExclusiveLease WITH`): TLC checks it as a PROPERTY, and TLAPS
proves it for all three.

**Pipelines** - the composition: several processes run the pipeline for one action over the same lease, workflow log
and state file; each write is a step, a process may stop for longer than the lease lives or die. The components
are what the pipeline sees of them; their insides are the business of the modules above.

**The classes that stand alone.** They share no state with each other. Each module models the classes of one kind;
several implementations of one idea differ in a few operators that look at `engine`.

| module | code (directory under `kmo_governance` unless said otherwise) | state and steps |
|---|---|---|
| `KeyedLocks` | `distributed_lock_manager`, `kpm_`, `graphity_`, `ninedots_`, `lexvance_`, `sae_v8_` lock managers | one lease per key with token and time left; acquire, renew, release, force, cleanup by threads that keep old tokens |
| `RoomLock` | `heylou_distributed_lock` | the four states of a room slot, rival channels, expiry |
| `SectionLock` | `df_graphity_verlag/distributed_lock` | signed tokens, the rest period, the anchor of the replay guard |
| `AuditBuses`, `CausalLog`, `FileChain` | five audit buses; `causal_event_log`; the chains of `df_graphity_verlag` | events with time stamps taken before the lock, retention by size and age, chains and anchors; vector clocks; lines in a file |
| `FamilyCouncil` | `df_cape_coral/familien_audit_bus` | decisions as files, consent, vetoes, workers that finalize |
| `DfBus` | `df_bus_orchestrator` | subscriptions, queues, circuit breakers, a vote with its time limit |
| `FlowControl`, `TokenBuckets`, `BatchProcessor` | back-pressure, slot admission, throttle; rate limiter and cell quotas; batches | windows and levels, tokens, a wall clock that may step back; chunks and requests between them |
| `Deduplication` | five engines | records with first and last access, late clock readings, a wall clock that may step back, eviction |
| `StepSagas` | `saga_step_orchestrator`, `kpm_saga_orchestrator`, `retry_strategy_engine` | steps in topological order, cancellation, delays |
| `Failover` | three failover routers, KPM's broker router, `hot_switch_adapter` | health counts, active target, circuit |
| `Rollouts` | two flag engines, two canaries | rules, buckets, emergency stop, stages, cooldown |
| `Homeostasis` | seven controllers | samples in a window, deviation in percent, action |
| `Chaos`, `ChaosCampaign` | nine chaos engines; `df_sae_v8/chaos_engineering` | slots for running injections, histories; a campaign with protections |
| `ApaleoAdapter`, `HotelBookings`, `GuestServices` | `apaleo_adapter`; eight booking adapters; Stripe, HubSpot, SendGrid, Twilio, SiteMinder, RateGain, Google | token, retries and breaker; rooms and bookings; charges, contacts, lists, messages |
| `NginxCluster`, `ShardsAndPods` | `df_external_nginx`; `df_external_redis`, `df_external_k8s` | votes, deployments and records, the parser; shards, keys on their way, pods under quota |
| `Cells`, `Signals` | the cell layer | death signals and cascade, healing, blackboard, load, consent; pools, quorum, modes, sleep, evolution |
| `Tenants` | `tenant_lifecycle`, `multi_tenant_approval`, `cross_tenant_filter` | a row and its trail written by workers, the verdict of the gate, policies |

`Exclusion` puts the locks and the pipeline side by side. `LimitKeepers` does so with the classes that keep a limit
(`FlowControl`, `TokenBuckets`, `StepSagas`, `Chaos`, `GuestServices`, `ShardsAndPods`, `Signals`) or act at one (`Failover`,
`Rollouts`, `DfBus`, `ApaleoAdapter`, `Homeostasis`), and `Engines` extends it by the other classes. `engine`, chosen at the start, says which class a behaviour is about, and the rest stand still. As
they share no state, their product would say nothing more. A property of these modules is one promise asked of every
class that makes it; its conjuncts are defined and explained in the modules of the classes. The constants are
parameters throughout; a name that several classes use carries the name of its class (`FlowLimit`, `GuestLimit`).

`MCExclusion` and `MCEngines` hold the values of constants that are maps, graphs or plans, and the cfg files the rest: for
the five durable components the cfg gives them all. The modules named `..._proofs` hold the theorems: `LeaseManager_proofs`,
`SagaEngine_proofs`, `Outbox_proofs`, `DurableStateMachine_proofs`, `ApprovalGate_proofs`, `Exclusion_proofs`,
`LimitKeepers_proofs` and `Engines_proofs`.

## 3. The runs

| run | instance | what it shows |
|---|---|---|
| `lease_safety` | 2 processes, 1 resource, 5 tokens, TTL 1, clock values up to 1 tick old | a lease that never lapsed keeps its row; exclusion unless a lease lapsed; no leaked row; the row of a dead holder is reclaimed; the table implements `ExclusiveLease` |
| `lease_purge` | same | *violated*: `force_release_stale` deletes a row renewed since it was selected |
| `saga_run` | 4 phases, any number of crashes and restarts | what DONE and COMPENSATED say about the world; undo order; repetition only through `execute`; start order; a living engine settles |
| `saga_partial_commit` | 2 phases | *violated*: after a crash in the compensation the run goes forward and ends DONE with phases undone |
| `outbox_delivery` | 2 producers, 2 event ids, 2 numbers, 3 retries | no file overwritten; acks and dead letters mean what they say; a handler runs twice only after a lost outcome; every event is resolved |
| `outbox_dlq_final` | 2 producers, 1 event published once, 3 retries | *violated*: a dead-lettered event is handled again, from the file that stays in the outbox |
| `durable_recovery` | 2 processes, 3 lines, snapshot every 2 events, 1 crash | exclusion, gap-free and unique numbers, faithful snapshots, committed events kept, each unless the recorded damage happened; locks are reclaimed |
| `durable_no_lost_commit` | same | *violated*: a committed event runs into an unfinished line and is lost |
| `approval_gate` | 2 processes, 2 dual approvals, 1 append, TTL 1, clock to 1 | tokens are spent once, never after revocation; one believer in the lock; the chain verifies when nobody appends |
| `approval_rollback` | same | *violated*: `pre_deploy_atomic` returns False for a committed deployment |
| `exclusion` | 2 or 3 threads on 2 keys, TTL 1 or 2; 2 channels; 2 processes on a section; 2 processes on an action with 2 phases and TTL 1 | `GrantsHold`: a lock, room or section is not given to a second holder, rivals are told of each other. `RunsOnce`: if the lease of a pipeline lapses after its workflow was started, nobody else works on the action. `ImplementLease`: the locks implement `ExclusiveLease` |
| `engines` | one to three callers per class, sizes and limits of 1 to 4 | `RecordsTrue`, `LimitsHold`, `WorkAccounted`, `DecisionsSound`, `EndsForGood`, each over all classes that make the promise |

**Bounds.** Two processes reach every race the code has: each hazard is between an actor and one that gets in
between (a third that enters after a wrong release in the durable lock is a returning first). Five tokens are one
for each place that can refer to a lease. `TTL` 1 and one tick of delay give both sides of every comparison with
the clock. Four phases have one that fails, one before, one after, and one crashed. Three retries are the code's
`MAX_RETRIES`. Three lines are a start, a snapshot boundary and an event behind it. Crashes are bounded only in
the durable run (1); elsewhere any number may happen. The unbounded history counters stop where no property can
tell the values apart (`Upto` in `Outbox`, `spent` in `ApprovalGate`). The stand-alone classes get the smallest sizes at
which their hazard happens: a limit of 1 or 2 with two callers who both pass the check, a window of 2 with a sample
that leaves it, a batch of 5 in chunks of 2 with an incomplete last one, a wall clock that steps back by 1 (rate
limiter, deduplication, back-pressure), a
primary that fails beside a standby, thresholds with values on both sides of them and on them. The constants of a
module name its bounds. Deadlock is checked
in every run: no bound stops a model, some caller can always begin something.

**Fairness.** Liveness is stated for the five durable components; the stand-alone classes have no threads of their
own that would owe progress. A call that has begun takes its next step (weak fairness on the steps of a running call): the
operating system schedules the process. Time passes. When calls are made is open, with three exceptions the code
is written for: polls and `republish_failed_acks` are called again and again (`EventuallyResolved`), a caller
refused with `ConcurrentTransitionError` tries again (`LockReclaimed`, strong fairness because the lock comes
and goes), and a file that is written again and again is synced some time. The liveness properties say under
which conduct of the environment they hold: `Settles` and `EventuallyResolved` assume that from some point on the
process no longer dies, `OrphanReclaimed` that calls of `acquire` keep coming and are not cut short.

## 4. What is proved

TLAPS checks these for any number of processes, threads, phases, events, keys and resources and any TTL. In each module
an invariant of several named parts is shown to hold at the start and to be kept by every action, one step of the
proof per action; the theorems follow from it. TLC has checked the parts as invariants on the small instances.

- **Lease manager** (`TypeCorrect`, `OneRow`, `NeverLapsedKeeps`, `NoLeak`, `Exclusion`, `LeaseRefines`). The invariant ties each
  row to the thread that will release it and bounds the ages of clock values, so that a purge which selected a row
  by an old clock value can only have selected a lease whose holder has lapsed. Exclusion follows: two holders
  that never lapsed have two rows on one resource, which the UNIQUE index forbids.
  `LeaseRefines` is the implementation of `ExclusiveLease`: with one row per resource, a step after which every live
  row was live before only ends leases (`Fewer`), and an insert or a late heartbeat that brings a row to life grants
  one to a resource nobody held (`Revived`).
- **Saga engine** (`SagaTyped`, `NothingMissing`, `CompensatedLeavesNothing`, `UndoFailuresReported`, `UndoneBackwards`,
  `ResumeNeverRepeats`, `PhasesInOrder`). `DoneMeansAll` is not inductive: it says nothing of the run
  before it is DONE. The invariant adds that the file is what the engine holds (`InStep`), that whatever is DONE in
  the file is in the world (`DoneIsApplied`), that going forward everything before `current_phase_idx` is DONE
  (`PrefixDone`), and that COMPENSATING is seen only inside `_compensate` (`Sides`). The last is where an
  interrupted compensation breaks the argument, and where the code breaks (`saga_partial_commit`). For the undo side it
  says in addition which phases the loop of `_compensate` has behind it and what their effects and records are by now.
  But for `SagaTyped` the theorems except what an interrupted compensation leads to. `UndoFailuresReported` excepts least: only
  the phases whose undo had failed when the process died in `_compensate` (`forgotten`).
- **Outbox** (`OutboxTyped`, `AckedWasHandled`, `HandledOnce`, `DeadAfterMaxRetries`, `FilesKept`). What a consumer is about to
  write is true already: before an ack the event is recorded as processed, and what is recorded was handled (`SuccessMeansHandled`);
  `retry_count` never runs ahead of the failures there have been (`FailuresCounted`); a failure overwrites a success only
  if its outcome was lost (`AttemptsAreNew`). A number taken for a file that is not written yet has no file and belongs to
  one producer (`NumbersDistinct`), so no rename meets a file.
- **Durable state machine** (`DurableTyped`, `TransitionsExclude`, `LockStaysWithHolder`, `LogHasNoGaps`, `LogHasNoDuplicates`,
  `SnapshotsFaithful`, `CommitsKept`). While nothing overlapped, whoever is inside has a directory, so mkdir fails for the
  others, and nobody's release removes another's lock. Then the number a process has read is still the number of the last
  event when it appends (`GapInv`, `PositionInv`: an event stands at the line its number says), which gives gap-free unique
  numbers. Of such a log the run rebuilt from a snapshot has one id for each number, whatever the snapshot holds, as long as
  it agrees with the log (`SnapInv`). `recover` sorts by number: what is needed of its recursion over sets of numbers is
  proved by taking the least counterexample.
- **Approval gate** (`GateStaysTyped`, `AcceptedOnce`, `NotAfterRevocation`, `OneBeliever`, `ChainStaysIntact`). An accepted token's row
  carries `used_at`, and the UPDATE repeats the condition. Whoever believes in the lock has its row, with the expiry it
  was told; the row is replaced only by someone whose clock reading, never ahead of the clock, is past it. The chain:
  at most one block is committed and not yet in the file, it is the one that continues the file, and its row keeps every
  other commit from the same index (`OneToFlush`); `ChainIntact` alone says nothing of the moment between COMMIT and flush.
- **Locks and pipeline** (`GrantsHoldAlways`, `RunsOnceAlways`, `LocksImplementLease`). Keyed locks: a grant that did not
  expire and was not broken is the lease of its key, and rivals are two holders on one document. Every operation of
  the six managers is one of seven kinds of step on the table, and the invariant is shown once for each kind. Rooms: whoever
  was told "booked" is the holder of a record that does not expire. Sections: who passed the rest period is still past
  it or a release came after; no anchor that is stored or about to be stored lies beyond the chain. Pipeline: as long as
  no lease lapsed early, whoever writes the first event holds a living lease and finds no event, so one engine at most enters
  the saga (`FirstEngine`), and the statuses it knows add up to what was done in the world (`Tallied`).
  `ImplementLease` covers the maps of `KeyedLocks` and `SectionLock` to `ExclusiveLease` and two action properties.
- **Limits** (`LimitsKept`, `EnginesKeepLimits`). One invariant per class, which its own steps keep and the steps of the others
  do not touch. Back-pressure: whoever was let through found room for one order in the window of then, so what is recorded
  and what is let through together exceed the limit by at most one per caller; the window only loses its oldest entries
  (`FlowInv`). Capacities and throttles stay in the band that the base and the configured extremes span, and what was accepted is what was
  drained followed by the queue (`BandInv`). Buckets: what was
  given out, the balance included, is paid for by the full bucket, by what was released and by what the clock ran and was set
  back (`BucketInv`). Quotas: nothing
  is booked beyond the budget, calls in the window are at most the cap, and a cell that is told to die is told once
  (`QuotaInv`). Retries: effects, attempts and delays keep in step (`RetryInv`). Chaos: every handler that runs is counted among the active
  ones, which are at most the limit (`ChaosInv`), attempts of a turn are counted (`TurnInv`). Messages: a stamp within the last minute is still in its
  window, so those of one minute are at most the limit (`RateInv`). Pods: each thread that passed the admission can add one (`PodInv`). Modes: the coordinator's check of the
  distance is still true when it acts, as nobody else switches in between (`HastyInv`); a month's action has a mark
  once it has begun (`MonthInv`).
- **Ends** (`EndedStaysEnded`, `SignalsSettle`). A batch that is finished has no runner (`BatchInv`). A cancelled booking
  of the Apaleo PMS may be cancelled again, so the proof needs that it is a record to which nothing is added (`HotelInv`). A
  policy of sharing that applied first is still first after an appended one: the least element of a set of numbers does not
  change if larger ones come (`FirstOfMore`). A policy of control is what the last score made of the one before (`SettledInv`); by the
  gap between the thresholds for entering and leaving a state, no score takes it back and forth. `EnginesKeepLimits` and
  `SignalsSettle` reach `Engines` by its being a `LimitKeepers` with steps of others added (`KeepersAmong`).

- **Decisions** (`KeepersDecideRight`, `DecisionsAreSound`). One invariant per class again. Failover: a standby is active only
  once there was a cause, a failure count is never above the tally since the last success, so a circuit that is not closed
  had its failures; the best broker exists because priorities and sequence numbers are natural numbers (`PriorityFirst`).
  Dispatch: whoever was shunned had an open breaker and has it until the dispatch is over, so nobody reached was unhealthy all
  through (`ShunnedSpared`). Vote: a "yes" that was answered has the votes it needs, a "no" leaves too few, and votes only come
  in (`VoteInv`). Apaleo: past the comparison of the hotels a call's booking is its hotel's, also while the call waits for a
  new token (`CallsRight`). Rollouts: what a caller read in an emergency is an emergency until it is cleared (`AskedInEmergency`).
  Homeostasis: the mean deviates as its samples do, which is shown for windows of any length by induction over the sets of
  samples summed so far (`SumAtLeast`, `MeanNormal`, `MeanCritical`). Campaign: what nobody else asked to protect is protected
  by the running campaign only (`CampaignInv`). Nginx: what a job is about to record was approved and proven, and the depth is
  the difference of the braces (`NginxInv`, `ParseInv`). Approval: what stops a request stops a riskier one (`RiskierIsNoMilder`).

The assumptions are the `ASSUME`s of the modules: TTLs and bounds are natural numbers (the pipeline's lease at least 1),
there is at least one phase, `None` is no row, no block and none of the values it stands beside, keys of locks are
pairs and finitely many, and so are the dual approvals. Those of `LimitKeepers` and `Engines` are what the constructors enforce
or the types say: rates, caps and windows are natural numbers, `max_pods` is positive (`k8s_namespace_boundary.py:30`), the base
of a throttle does not exceed its maximum (`adaptive_throttle.py:66`), at least one attempt is made, a bucket is a number below
100 and a rollout a percentage, intensities are percentages (`sae_chaos_orchestrator.py:57`), a severe drift is more than a mild
one, and a mild one more than none (enforced by three of the controllers, true of the defaults of all), threads, targets and
pods are finitely many. TLC evaluates them in the runs.

Only model-checked: liveness (`OrphanReclaimed`, `Settles`, `EventuallyResolved`, `LockReclaimed`), as fairness and
ENABLED are beyond the prover; `RecordsTrue` and `WorkAccounted` of `Engines`; and every `violation`, which a
run shows by a behaviour. `WorkAccounted` and parts of `RecordsTrue` speak of sums over sequences and sets (results of a batch,
rooms on the nights of a stay, loads of a grid), computed by folds, of which nothing can be proved for every length without
induction over data. The induction theorems of the library take an operator and cannot be used here. What the proofs
need of recursive functions and of finite data follows from the least-number principle (`WFMin`).

## 5. Findings

1. `kmo_lease_manager.py:310` – the purge deletes by id what it selected before; a heartbeat in between is lost and
   a live lease is deleted.
2. `kmo_saga_engine.py:364` – a run that died in COMPENSATING goes forward and may end DONE over undone phases.
3. `kmo_outbox_consumer.py:269` – dead-lettering copies: the event is handled again at the next poll.
4. `kmo_durable_state_machine.py:217` – an event appended after an unfinished line is lost although committed.
5. `kmo_approval_gate.py:491` – False is returned for a committed deployment when the flush fails.

Consequences and smaller things seen while modelling, without a run of their own (paths under `src/kmo_governance`):

- *Durable components.* After a crash in `_compensate` the next failure undoes only phases that are DONE and counts failed
  undos from zero (`saga-pattern/kmo_saga_engine.py:484-523`): a run with a phase in UNDO_FAILED may end COMPENSATED, and so may
  one whose effect the first compensation had begun to undo and has left in the world. A failing automatic snapshot lets `transition` raise although its event is in
  the log (`durable_execution/kmo_durable_state_machine.py:376`). After a lost flush the next block gets an index that `audit_chain` has already, so every
  later `pre_deploy_atomic` fails on its primary key. `AuditLog.append` racing another writer makes `verify_chain`
  false for good. Two processes may both start a workflow. A consumer that dies between recording success and
  writing the ack never writes it, and the event is republished for ever. `publish` with an old `event_id` writes a
  second file, where its docstring (`kmo_outbox_producer.py:137`) speaks of the same one.
- *Pipeline.* A process that dies after `start_workflow` leaves its action stuck: the call raises for every later
  one. Only a lease that lapses between `acquire` and `start_workflow` puts two engines on one run id. In the filter a
  frontmatter tag is looked at before the secret patterns.
- *Locks.* A rival's refused attempt turns a BOOKED room into CONFLICT, and its holder may then release it
  (`heylou_distributed_lock.py:279`). The resolver of concurrent edits duplicates lines. An anchor of equal index
  overwrites the earlier one in the replay guard.
- *Records.* A late clock reading makes `EventRecord` raise out of `DeduplicationEngine.check`, and a wall clock that steps back
  does so with a single caller; votes and decisions
  may be told more time than the TTL. LexVance's chain does not verify after events were dropped for size or age.
  `is_consensus_reached` may change its answer as votes come in. The council's audit swallows an error of its persister.
- *Flow.* Back-pressure averages over the window where its text speaks of a hard cap, and `max_notional_per_minute` is not
  used. `resume` of a batch may set RUNNING with no runner, and `cancel` of a paused batch has no effect.
  `2.0**n` overflows before `min` takes the maximal delay. `run` and `compensate` of the step orchestrator are said to
  exclude each other (`saga_step_orchestrator.py:278`), and no lock spans `run`. `cancel_in_progress` may
  answer True for a saga that completes.
- *Switching.* The route goes to a primary that is DOWN although a degraded standby is up. KPM's trading failover promises no
  automatic recovery (`kpm_trading_failover.py:78`) and its `route` goes back by itself (226-254). A late success
  closes or resets an open circuit (hot switch, Apaleo), and HALF_OPEN admits every caller. A flag's percentage
  survives the emergency stop. `ProgressiveRollout.advance` counts a stage before its registration may raise.
- *Controllers and chaos.* Histories are shared across asset classes, slots and metric names. Four chaos engines leak
  their slot if a handler raises. A campaign's `finally` takes away protections others asked for, and a crashed slot may
  be reported with health (`apoptose_core.py:17` says none).
- *Adapters.* Partial refunds may sum to more than the charge; one idempotency key used for two operations returns
  the wrong kind of answer. Cloudbeds ignores the status when posting a payment; an Expedia refund gives no room back;
  an IBE update revives a cancelled booking; Mews books without looking for a conflict; HotelFriend's cancellation may
  exceed the pushed inventory; SendGrid sends to suppressed addresses.
- *Executors.* The nginx distributor calls itself transactional (`nginx_config_distributor.py:19`); its `_rollback`
  (245-253) changes the record only, by one configuration too many, and deploys nothing. Its parser accepts one closing brace
  too many at the end. During a migration keys are in nobody's store. A late usage report revives a terminated pod.
- *Cells and tenants.* If the snapshot raises, an apoptosis stays in its first stage for ever. Consent changes though its
  audit line fails. The blackboard reuses a number after its newest event was purged. A monthly action that failed is not
  tried again that month. The regression cage may combine bests of different populations. A stale object revives an archived
  tenant (`tenant_lifecycle/src/db.py:92`), and `SharingPolicy.valid_until` is never looked at.

## 6. Plan

Left for the proofs: `RecordsTrue` (audit buses, vector clocks, council, consent), with the constants' assumptions each class
needs; of `WorkAccounted`, the conjuncts without a fold: `StatusTellsEffect`, `OutcomeTrue`, `ChargedOnce`, `EmailUnique`,
`WindowFixed`. After that, the parts of section 7
that have state: the nightly cycles, the resolver of concurrent edits, the hot switch's orchestrator.

## 7. Not modelled

- *Arithmetic and output*: KPM's sizing, backtest, liquidity and demo; observability; knowledge decay; clock skew;
  scores and breakdowns of chaos and containment; forecasts. Their results are floating-point numbers no other part acts on.
- *Predicates over finished data*: the contract validator, snapshot consistency, the resharding validator, schema checks,
  the SQL check of the membrane, anonymization, impact assessments. No state, no order of steps.
- *Chance*: `LateralInhibitor.admit` and the mutation of genomes draw random numbers; any outcome would be possible
  in a model.
- *Test doubles, reports and scripts*: the mock server, the gateway stub, the pilot report, the health check, df-89, the
  integration tests.
- *Clocks that step back*: they do in `TokenBuckets`, `Deduplication` and `FlowControl`. The other modules, the lease table and the
  approval gate among them, let their clocks run forward only, late readings included, though some of their classes read
  `time.time()` or `datetime.now`.
- *Set-up*: subscriptions, registrations and callbacks are in place before the models start; callbacks return.
- Inside modelled components, `PROJECT.json` says in each note what is left out.
