--------------------------- MODULE ShardsAndPods ---------------------------
(***************************************************************************)
(*   redis  RedisClusterTopology and RedisMitoseOrchestrator: a shard that *)
(*          has grown too large is split into two daughters                *)
(*   pods   PodLifecycle, K8sApoptosisHandler and K8sNamespaceBoundary:    *)
(*          pods under a quota per namespace, killed unless protected      *)
(*                                                                         *)
(* The topology's lock covers one operation; a division is four of them,   *)
(* and the keys move in the caller's store without any lock.  Admission to *)
(* a namespace and the creation of the pod are two calls.                  *)
(***************************************************************************)
EXTENDS Integers, FiniteSets

CONSTANTS
  Slots,        \* TOTAL_SLOTS
  MinSlots,     \* MIN_SLOTS_PER_SHARD
  SlotOf,       \* crc16_slot: slot of each key
  LoadAt,       \* load_threshold
  MinHalf,      \* min_keys_per_half
  MaxShards,    \* bound: shard ids
  Threads,      \* callers of execute_mitose, run_cycle and of admit_pod
  Pods,         \* pods of one namespace
  MaxPods,      \* max_pods of its quota
  None

VARIABLES
  engine,
  shards,       \* _shards: range, state and key_count of each
  lastId,       \* _daughter_counter
  kv,           \* kv_store: keys of each shard
  job,          \* per thread: mother, daughters, phase and the keys in its hands
  pods,         \* _pods: phase and condition
  protected,    \* _protected
  admitted,     \* threads with an admission they have not used
  slain,        \* history: pods killed while protected
  revived       \* history: terminated pods that are no longer so

redisVars == <<shards, lastId, kv, job>>
podVars   == <<pods, protected, admitted, slain, revived>>
vars      == <<redisVars, podVars>>

Engines == {"redis", "pods"}
Ids     == 0..MaxShards
Keys    == DOMAIN SlotOf
Idle    == [phase |-> "idle", mother |-> None, a |-> None, b |-> None, hand |-> {}]

Start ==
  /\ shards = [i \in Ids |-> IF i = 0 THEN [first |-> 0, last |-> Slots - 1, state |-> "healthy",
                                            count |-> Cardinality(Keys)] ELSE None]
  /\ lastId = 0
  /\ kv = [i \in Ids |-> IF i = 0 THEN Keys ELSE {}]
  /\ job = [t \in Threads |-> Idle]
  /\ pods = [p \in Pods |-> None] /\ protected = {} /\ admitted = {} /\ slain = {} /\ revived = {}

-----------------------------------------------------------------------------
(* RedisClusterTopology *)

Topology == {i \in Ids : shards[i] # None}
Width(i) == shards[i].last - shards[i].first + 1
Owns(i, slot) == i \in Topology /\ shards[i].first <= slot /\ slot <= shards[i].last

\* FAULT: a daughter may be split before it has been promoted.
AnyShard(m) == m \in Topology /\ Width(m) >= 2 * MinSlots

Splittable(m) == m \in Topology /\ shards[m].state = "healthy" /\ Width(m) >= 2 * MinSlots

\* FAULT: the daughters share the slot in the middle.
HalvesOverlap(m) ==
  LET mid == shards[m].first + Width(m) \div 2 - 1
  IN  <<[first |-> shards[m].first, last |-> mid], [first |-> mid, last |-> shards[m].last]>>

\* SlotRange.split_half.
Halves(m) ==
  LET mid == shards[m].first + Width(m) \div 2 - 1
  IN  <<[first |-> shards[m].first, last |-> mid], [first |-> mid + 1, last |-> shards[m].last]>>

Daughter(range, n) == [first |-> range.first, last |-> range.last, state |-> "daughter_new", count |-> n]

\* split_shard: the mother makes room for two daughters that halve its slots and
\* its key_count, which is an estimate from then on.
SplitShard(t) ==
  /\ engine = "redis" /\ job[t].phase = "asked"
  /\ LET m == job[t].mother
         half == shards[m].count \div 2
     IN  IF Splittable(m)
           THEN /\ shards' = [shards EXCEPT ![m] = None,
                                            ![job[t].a] = Daughter(Halves(m)[1], half),
                                            ![job[t].b] = Daughter(Halves(m)[2], shards[m].count - half)]
                /\ job' = [job EXCEPT ![t].phase = "split"]
           ELSE job' = [job EXCEPT ![t] = Idle] /\ UNCHANGED shards
  /\ UNCHANGED <<lastId, kv, podVars>>

-----------------------------------------------------------------------------
(* RedisMitoseOrchestrator *)

\* decide_to_split, from a snapshot that may be stale when its turn comes.
Candidates ==
  {i \in Topology : /\ shards[i].state = "healthy" /\ shards[i].count >= LoadAt
                    /\ shards[i].count \div 2 >= MinHalf /\ Width(i) >= 2 * MinSlots}

\* execute_mitose takes two ids, also when the division is then refused.
ExecuteMitose(t, m) ==
  /\ engine = "redis" /\ job[t].phase = "idle" /\ lastId + 2 <= MaxShards
  /\ lastId' = lastId + 2
  /\ job' = [job EXCEPT ![t] = [phase |-> "asked", mother |-> m, a |-> lastId + 1, b |-> lastId + 2,
                                hand |-> {}]]
  /\ UNCHANGED <<shards, kv, podVars>>

RunCycle(t) == \E m \in Candidates : ExecuteMitose(t, m)

\* _migrate_keys: the mother's keys leave the store before the daughters have them.
\* Were a daughter gone, the keys in hand would be lost with the exception.
PopKeys(t) ==
  /\ engine = "redis" /\ job[t].phase = "split"
  /\ kv' = [kv EXCEPT ![job[t].mother] = {}]
  /\ job' = [job EXCEPT ![t] = IF {@.a, @.b} \subseteq Topology
                                 THEN [@ EXCEPT !.phase = "moving", !.hand = kv[job[t].mother]]
                                 ELSE Idle]
  /\ UNCHANGED <<shards, lastId, podVars>>

PlaceKey(t, k) ==
  /\ engine = "redis" /\ job[t].phase = "moving" /\ k \in job[t].hand
  /\ LET d == IF Owns(job[t].a, SlotOf[k]) THEN job[t].a ELSE job[t].b
     IN  kv' = [kv EXCEPT ![d] = @ \cup {k}]
  /\ job' = [job EXCEPT ![t].hand = @ \ {k}]
  /\ UNCHANGED <<shards, lastId, podVars>>

\* promote_daughter, one after the other.
PromoteDaughter(t) ==
  /\ engine = "redis"
  /\ \/ /\ job[t].phase = "moving" /\ job[t].hand = {}
        /\ shards' = [shards EXCEPT ![job[t].a].state = "healthy"]
        /\ job' = [job EXCEPT ![t].phase = "promoting"]
     \/ /\ job[t].phase = "promoting"
        /\ shards' = [shards EXCEPT ![job[t].b].state = "healthy"]
        /\ job' = [job EXCEPT ![t] = Idle]
  /\ UNCHANGED <<lastId, kv, podVars>>

\* snapshot, find_shard_for_key and the validator's reports only read.
ReadTopology == engine = "redis" /\ UNCHANGED vars

-----------------------------------------------------------------------------
(* Pods *)

\* FAULT: pods that crashed are not counted.
Healthy == {p \in Pods : pods[p] # None /\ pods[p].condition \notin {"terminated", "crashed"}}

\* The pods that count: all but the terminated ones.
Active == {p \in Pods : pods[p] # None /\ pods[p].condition # "terminated"}

\* K8sNamespaceBoundary.admit_pod answers from the pods there are now.
AdmitPod(t) ==
  /\ engine = "pods" /\ t \notin admitted
  /\ Cardinality(Active) < MaxPods
  /\ admitted' = admitted \cup {t}
  /\ UNCHANGED <<redisVars, pods, protected, slain, revived>>

CreatePod(t, p) ==
  /\ engine = "pods" /\ t \in admitted /\ pods[p] = None
  /\ pods' = [pods EXCEPT ![p] = [phase |-> "pending", condition |-> "healthy"]]
  /\ admitted' = admitted \ {t}
  /\ UNCHANGED <<redisVars, protected, slain, revived>>

TransitionToRunning(p) ==
  /\ engine = "pods" /\ pods[p] # None /\ pods[p].phase = "pending"
  /\ pods' = [pods EXCEPT ![p].phase = "running"]
  /\ UNCHANGED <<redisVars, protected, admitted, slain, revived>>

\* update_usage: also a crashed or terminated pod comes under pressure, and is healthy
\* after it.
UpdateUsage(p, over) ==
  /\ engine = "pods" /\ pods[p] # None
  /\ pods' = [pods EXCEPT ![p].condition =
       IF over THEN "pressure" ELSE IF @ = "pressure" THEN "healthy" ELSE @]
  /\ revived' = IF over /\ pods[p].condition = "terminated" THEN revived \cup {p} ELSE revived
  /\ UNCHANGED <<redisVars, protected, admitted, slain>>

ProtectPod(p) ==
  /\ engine = "pods"
  /\ protected' = protected \cup {p}
  /\ UNCHANGED <<redisVars, pods, admitted, slain, revived>>

\* is_protected and cleanup_expired_protections drop what has expired.
ProtectionExpires(p) ==
  /\ engine = "pods" /\ p \in protected
  /\ protected' = protected \ {p}
  /\ UNCHANGED <<redisVars, pods, admitted, slain, revived>>

\* FAULT: a manual trigger also kills a protected pod.
ManualFirst(p, manual) == manual \/ (p \notin protected /\ pods[p].condition # "healthy")

\* evaluate_trigger: protection first, then health, which a manual trigger ignores.
\* That a pod has been terminated makes no difference.
Dies(p, manual) == p \notin protected /\ (manual \/ pods[p].condition # "healthy")

EvaluateTrigger(p, manual) ==
  /\ engine = "pods" /\ pods[p] # None /\ Dies(p, manual)
  /\ pods' = [pods EXCEPT ![p] = [phase |-> "failed", condition |-> "crashed"]]
  /\ slain' = IF p \in protected THEN slain \cup {p} ELSE slain
  /\ revived' = IF pods[p].condition = "terminated" THEN revived \cup {p} ELSE revived
  /\ UNCHANGED <<redisVars, protected, admitted>>

\* cascade_apoptosis asks once for the pods under pressure, then evaluates each.
CascadeApoptosis(p) == engine = "pods" /\ EvaluateTrigger(p, FALSE)

Terminate(p) ==
  /\ engine = "pods" /\ pods[p] # None
  /\ pods' = [pods EXCEPT ![p] = [phase |-> IF @.condition = "healthy" THEN "succeeded" ELSE "failed",
                                  condition |-> "terminated"]]
  /\ revived' = revived \ {p}
  /\ UNCHANGED <<redisVars, protected, admitted, slain>>

CleanupTerminated ==
  /\ engine = "pods"
  /\ pods' = [p \in Pods |-> IF p \in Active THEN pods[p] ELSE None]
  /\ UNCHANGED <<redisVars, protected, admitted, slain, revived>>

Next ==
  \/ \E t \in Threads :
       \/ \E m \in Topology : ExecuteMitose(t, m)
       \/ RunCycle(t) \/ SplitShard(t) \/ PopKeys(t) \/ PromoteDaughter(t) \/ AdmitPod(t)
       \/ \E k \in Keys : PlaceKey(t, k)
       \/ \E p \in Pods : CreatePod(t, p)
  \/ ReadTopology \/ CleanupTerminated
  \/ \E p \in Pods :
       \/ TransitionToRunning(p) \/ ProtectPod(p) \/ ProtectionExpires(p)
       \/ Terminate(p) \/ CascadeApoptosis(p)
       \/ \E x \in BOOLEAN : UpdateUsage(p, x) \/ EvaluateTrigger(p, x)

-----------------------------------------------------------------------------
(* Properties *)

\* While shards divide side by side, every slot has one owner, and every key is at one
\* place: in the hands of one division, with the mother whose division has just begun,
\* or with the shard that owns its slot.
KeysConserved ==
  engine = "redis" =>
    /\ \A s \in 0..(Slots - 1) : Cardinality({i \in Topology : Owns(i, s)}) = 1
    /\ \A k \in Keys :
         /\ Cardinality({i \in Ids : k \in kv[i]}) + Cardinality({t \in Threads : k \in job[t].hand}) = 1
         /\ \A i \in Ids : k \in kv[i] => \/ Owns(i, SlotOf[k])
                                          \/ \E t \in Threads : job[t].phase = "split" /\ job[t].mother = i

\* Threads admitted side by side exceed the quota by no more than one pod each but
\* the first, apart from terminated pods that a late report or trigger revives.
QuotaAlmostKept ==
  engine = "pods" =>
    LET live == {p \in Pods \ revived : pods[p] # None /\ pods[p].condition # "terminated"}
    IN  Cardinality(live) + Cardinality(admitted) <= MaxPods + Cardinality(Threads) - 1

\* No trigger, alone or in a cascade, kills a protected pod.
ProtectedPodsLive == engine = "pods" => slain = {}
=============================================================================
