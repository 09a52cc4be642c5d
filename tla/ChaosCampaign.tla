--------------------------- MODULE ChaosCampaign ---------------------------
(***************************************************************************)
(* campaign: chaos campaigns against mock slots (apoptose_core,            *)
(* SaeFailureInjector, SaeChaosOrchestrator).                              *)
(*                                                                         *)
(* A campaign holds the orchestrator's lock from start to end, which keeps *)
(* protections out; the injector has a lock of its own, so other callers   *)
(* inject and reset between two steps of a campaign.  Health, intensity    *)
(* and q_norm are in hundredths, products are rounded down.                *)
(***************************************************************************)
EXTENDS Integers, FiniteSets, Sequences

CONSTANTS
  Slots,       \* slots of one hotel; the first is the target
  Target,
  Modes,       \* the modes of a campaign, in order
  Intensities, \* intensities in 0..100
  Decisions,   \* decision ids
  Protects,    \* veto_protection_decision_ids of a campaign
  TTL,         \* ttl_sec of a protection, in ticks
  MaxInjected, \* bound: injections into a slot between two resets
  None

VARIABLES
  engine,
  slot,      \* each slot's health_score, token_consumed, q_norm and flags
  injected,  \* length of its injection_history
  protected, \* _veto_protected: ticks left of each decision's protection, None without
  outside,   \* history: decisions that someone else than a campaign has protected
  campaign,  \* None, or the running campaign's steps done and decisions judged
  vetoed     \* history: a decision was vetoed although it was protected

vars == <<slot, injected, protected, outside, campaign, vetoed>>

Engines == {"campaign"}
Healthy == [health |-> 100, consumed |-> 0, q |-> 0, cut |-> FALSE, lies |-> FALSE, crashed |-> FALSE]
Kinds   == {"slot_crash", "token_starvation", "network_partition", "byzantine_fault", "governance_drift",
            "heartbeat_timeout"}

Start ==
  /\ slot = [s \in Slots |-> Healthy] /\ injected = [s \in Slots |-> 0]
  /\ protected = [d \in Decisions |-> None] /\ outside = {}
  /\ campaign = None /\ vetoed = FALSE

-----------------------------------------------------------------------------
(* What a failure does to a slot *)

\* FAULT: the health may fall below zero.
Unbounded(h) == h

Floor(h) == IF h < 0 THEN 0 ELSE h

Least(a, b) == IF a < b THEN a ELSE b

Starved(x, i) ==
  LET consumed == Least(x.consumed + i, 100) IN [x EXCEPT !.consumed = consumed, !.health = Floor(100 - consumed)]

Applied(x, mode, i) ==
  CASE mode = "slot_crash" /\ i >= 50       -> [x EXCEPT !.crashed = TRUE, !.health = 0]
    [] mode = "slot_crash" /\ i < 50        -> [x EXCEPT !.health = Floor(@ - i)]
    [] mode = "token_starvation"            -> Starved(x, i)
    [] mode = "network_partition"           -> [x EXCEPT !.cut = @ \/ i >= 50, !.health = (@ * (10000 - 70 * i)) \div 10000]
    [] mode = "byzantine_fault"             -> [x EXCEPT !.lies = TRUE, !.q = @ + i \div 2]
    [] mode = "governance_drift"            -> [x EXCEPT !.q = IF @ >= 0 THEN 200 + i ELSE -200 - i, !.health = Floor(@ - (30 * i) \div 100)]
    [] mode = "heartbeat_timeout"           -> [x EXCEPT !.health = Floor(@ - i \div 2)]

Unhealthy(x) == x.crashed \/ x.lies \/ x.cut \/ x.health < 30 \/ ~(-200 <= x.q /\ x.q <= 200)

Inject(s, mode, i) ==
  /\ injected[s] < MaxInjected
  /\ slot' = [slot EXCEPT ![s] = Applied(@, mode, i)] /\ injected' = [injected EXCEPT ![s] = @ + 1]

InjectAlone(s, mode, i) ==
  /\ engine = "campaign" /\ Inject(s, mode, i)
  /\ UNCHANGED <<protected, outside, campaign, vetoed>>

\* The history of injections is kept; the bound starts again.
ResetSlot(s) ==
  /\ engine = "campaign"
  /\ slot' = [slot EXCEPT ![s] = Healthy] /\ injected' = [injected EXCEPT ![s] = 0]
  /\ UNCHANGED <<protected, outside, campaign, vetoed>>

-----------------------------------------------------------------------------
(* Protections *)

IsProtected(d) == protected[d] # None /\ (protected[d] # None => protected[d] > 0)

ProtectDecision(d) ==
  /\ engine = "campaign" /\ campaign = None
  /\ protected' = [protected EXCEPT ![d] = TTL] /\ outside' = outside \cup {d}
  /\ UNCHANGED <<slot, injected, campaign, vetoed>>

ReleaseProtection(d) ==
  /\ engine = "campaign" /\ campaign = None /\ protected[d] # None
  /\ protected' = [protected EXCEPT ![d] = None] /\ outside' = outside \ {d}
  /\ UNCHANGED <<slot, injected, campaign, vetoed>>

\* Time passes; an expired protection goes when it is next looked at.
Tick ==
  /\ engine = "campaign" /\ \E d \in Decisions : IsProtected(d)
  /\ protected' = [d \in Decisions |-> IF IsProtected(d) THEN protected[d] - 1 ELSE protected[d]]
  /\ UNCHANGED <<slot, injected, outside, campaign, vetoed>>

-----------------------------------------------------------------------------
(* A campaign *)

\* run_campaign: verified, and its decisions protected; one that ends by an
\* error goes on to the "finally".
BeginCampaign ==
  /\ engine = "campaign" /\ campaign = None
  /\ campaign' = [step |-> 0, judged |-> {}]
  /\ protected' = [d \in Decisions |-> IF d \in Protects THEN TTL ELSE protected[d]]
  /\ UNCHANGED <<slot, injected, outside, vetoed>>

CampaignStep(i) ==
  /\ engine = "campaign" /\ campaign # None /\ campaign.step < Len(Modes)
  /\ Inject(Target, Modes[campaign.step + 1], i)
  /\ campaign' = [campaign EXCEPT !.step = @ + 1]
  /\ UNCHANGED <<protected, outside, vetoed>>

\* FAULT: only the decision's own protection counts.
SparedAlone(d) == IsProtected(d)

\* One live protection of the campaign spares all its decisions.
Spared(d) == IsProtected(d) \/ \E p \in Protects : IsProtected(p)

Looked(ds) == [d \in Decisions |-> IF d \in ds /\ ~IsProtected(d) THEN None ELSE protected[d]]

JudgeDecision(d) ==
  /\ engine = "campaign" /\ campaign # None /\ campaign.step = Len(Modes) /\ d \notin campaign.judged
  /\ campaign' = [campaign EXCEPT !.judged = @ \cup {d}]
  /\ vetoed' = (vetoed \/ (Unhealthy(slot[Target]) /\ ~Spared(d) /\ \E p \in Protects \cup {d} : IsProtected(p)))
  /\ protected' = Looked({d} \cup Protects)
  /\ UNCHANGED <<slot, injected, outside>>

\* FAULT: the protections of a campaign that failed are not released.
ReleasesOnSuccess == IF campaign.step = Len(Modes) THEN Protects ELSE {}

Released == Protects

\* The end, or an error on the way: the protections of the campaign are released,
\* also the ones that someone else had asked for.
EndCampaign ==
  /\ engine = "campaign" /\ campaign # None
  /\ campaign' = None
  /\ protected' = [d \in Decisions |-> IF d \in Released THEN None ELSE protected[d]]
  /\ outside' = outside \ Released
  /\ UNCHANGED <<slot, injected, vetoed>>

Next ==
  \/ \E s \in Slots, m \in Kinds, i \in Intensities : InjectAlone(s, m, i)
  \/ \E s \in Slots : ResetSlot(s)
  \/ \E d \in Decisions : ProtectDecision(d) \/ ReleaseProtection(d) \/ JudgeDecision(d)
  \/ Tick \/ BeginCampaign \/ EndCampaign
  \/ \E i \in Intensities : CampaignStep(i)

-----------------------------------------------------------------------------
\* I-AC-1: whatever is injected in whatever order, a health stays within 0 and 1.
HealthInRange == \A s \in Slots : 0 <= slot[s].health /\ slot[s].health <= 100

\* A decision is not vetoed while it, or the campaign it belongs to, is protected;
\* and a campaign that is over, however it ended, leaves no protection behind.
ProtectionHolds ==
  /\ ~vetoed
  /\ campaign = None => \A d \in Decisions : protected[d] # None => d \in outside

\* I-AC-2 of apoptose_core.py: "is_crashed implies health_score == 0.0".
CrashedMeansNoHealth == \A s \in Slots : slot[s].crashed => slot[s].health = 0
=============================================================================
