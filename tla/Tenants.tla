------------------------------ MODULE Tenants ------------------------------
(***************************************************************************)
(* Tenants of the platform.                                                *)
(*   tenant   lifecycle_pipeline and TenantDB: a worker builds the Tenant  *)
(*            object from its row, moves it on, writes the row and, in a   *)
(*            transaction of its own, the lifecycle event                  *)
(*   gate     pre_action_check of the multi-tenant approval                *)
(*   sharing  PolicyDecisionPoint: policies are added, requests decided    *)
(***************************************************************************)
EXTENDS Integers, Sequences, FiniteSets

CONSTANTS
  Workers,      \* workers that move the tenant on
  MaxTrail,     \* bound: lifecycle events
  Radii,        \* values of blast_radius
  Counts,       \* values of record_count
  K,            \* anonymization_threshold_k
  MaxPolicies,  \* bound: policies
  None

VARIABLES
  engine,
  tenantRow,  \* tenants: the status of the tenant
  trail,      \* tenant_lifecycle_events: <<from_status, to_status>>
  object,     \* per worker: its Tenant object, and how far its writes are
  overlap,    \* history: a row was written over that had changed since it was read
  cut,        \* history: a worker died between the row and the event
  request,    \* ApprovalRequest, or None
  policies    \* policies of the PolicyDecisionPoint

vars == <<tenantRow, trail, object, overlap, cut, request, policies>>

Engines == {"tenant", "gate", "sharing"}

Start ==
  /\ tenantRow = "PROVISIONED" /\ trail = <<>> /\ object = [w \in Workers |-> None]
  /\ overlap = FALSE /\ cut = FALSE
  /\ request = None /\ policies = <<>>

-----------------------------------------------------------------------------
(* Lifecycle *)

\* VALID_TRANSITIONS.
ValidTransitions ==
  [PROVISIONED |-> {"ACTIVE", "DECOMMISSIONED"}, ACTIVE |-> {"SUSPENDED", "DECOMMISSIONED"},
   SUSPENDED |-> {"ACTIVE", "DECOMMISSIONED"}, DECOMMISSIONED |-> {"ARCHIVED"}, ARCHIVED |-> {}]

\* get_tenant, and the object its caller makes of the row.
Load(w) ==
  /\ object[w] = None
  /\ object' = [object EXCEPT ![w] = [read |-> tenantRow, status |-> tenantRow, step |-> "read"]]
  /\ UNCHANGED <<tenantRow, trail, overlap, cut>>

\* FAULT: decommission and archive do not look at the status.
AnyEnd(s, t) == t \in ValidTransitions[s] \cup {"DECOMMISSIONED", "ARCHIVED"}

\* _check_transition.
CheckTransition(s, t) == t \in ValidTransitions[s]

\* activate, suspend, reactivate, decommission, archive; a refused one raises
\* and leaves the object.
Transition(w, t) ==
  /\ object[w] # None /\ object[w].step = "read"
  /\ CheckTransition(object[w].status, t)
  /\ object' = [object EXCEPT ![w].status = t, ![w].step = "moved"]
  /\ UNCHANGED <<tenantRow, trail, overlap, cut>>

\* upsert_tenant: the whole row, whatever it holds by now.
Upsert(w) ==
  /\ object[w] # None /\ object[w].step = "moved" /\ Len(trail) < MaxTrail
  /\ overlap' = (overlap \/ tenantRow # object[w].read
                         \/ \E v \in Workers \ {w} : object[v] # None /\ object[v].step # "read")
  /\ tenantRow' = object[w].status
  /\ object' = [object EXCEPT ![w].step = "written"]
  /\ UNCHANGED <<trail, cut>>

\* log_transition.
LogTransition(w) ==
  /\ object[w] # None /\ object[w].step = "written"
  /\ trail' = Append(trail, <<object[w].read, object[w].status>>)
  /\ object' = [object EXCEPT ![w] = None]
  /\ UNCHANGED <<tenantRow, overlap, cut>>

\* The worker dies, or gives up its object.
GiveUp(w) ==
  /\ object[w] # None
  /\ cut' = (cut \/ object[w].step = "written")
  /\ object' = [object EXCEPT ![w] = None]
  /\ UNCHANGED <<tenantRow, trail, overlap>>

Lifecycle ==
  /\ engine = "tenant"
  /\ \E w \in Workers :
       \/ Load(w) \/ Upsert(w) \/ LogTransition(w) \/ GiveUp(w)
       \/ \E t \in DOMAIN ValidTransitions : Transition(w, t)
  /\ UNCHANGED <<request, policies>>

-----------------------------------------------------------------------------
(* Approval gate *)

Verdicts == <<"APPROVED", "ESCALATED", "BLOCKED">>

\* The fields of an ApprovalRequest that a rule looks at, and
\* allow_cross_tenant_sharing of the call.
Requests ==
  [phronesis : BOOLEAN, category : {"sharing", "deletion", "other"}, prod : BOOLEAN,
   reversible : BOOLEAN, radius : Radii, allowed : BOOLEAN]

Blocks(r) ==
  \/ r.category = "sharing" /\ ~r.allowed
  \/ r.prod /\ r.category = "deletion" /\ ~r.reversible
  \/ r.prod /\ r.radius >= 5000

Escalates(r) ==
  \/ r.phronesis
  \/ r.category = "sharing" /\ r.allowed
  \/ r.prod /\ (r.radius >= 100 \/ ~r.reversible)

\* FAULT: the radius is judged last, and its verdict replaces the others.
RadiusLast(r) ==
  IF r.prod /\ r.radius \in 100..4999 THEN "ESCALATED"
  ELSE IF Blocks(r) THEN "BLOCKED" ELSE IF Escalates(r) THEN "ESCALATED" ELSE "APPROVED"

\* pre_action_check: no later rule makes a verdict milder.
PreActionCheck(r) ==
  IF Blocks(r) THEN "BLOCKED" ELSE IF Escalates(r) THEN "ESCALATED" ELSE "APPROVED"

Ask ==
  /\ engine = "gate"
  /\ request' \in Requests
  /\ UNCHANGED <<tenantRow, trail, object, overlap, cut, policies>>

-----------------------------------------------------------------------------
(* Sharing between two tenants *)

Sensitivities == {"PUBLIC", "PII"}
Policies == [covers : SUBSET Sensitivities, anonymize : BOOLEAN]

\* FAULT: the policy that was added last counts.
LastPolicy(found) == CHOOSE i \in found : \A j \in found : j <= i

\* matching[0].
FirstPolicy(found) == CHOOSE i \in found : \A j \in found : i <= j

\* decide, for a request from one tenant to the other.
Decide(ps, sensitivity, n) ==
  LET matching == {i \in DOMAIN ps : sensitivity \in ps[i].covers}
  IN  IF matching = {} THEN "DENY"
      ELSE IF ps[FirstPolicy(matching)].anonymize /\ sensitivity # "PUBLIC"
        THEN IF n < K THEN "DENY" ELSE "ALLOW_WITH_ANONYMIZATION"
      ELSE "ALLOW"

AddPolicy ==
  /\ engine = "sharing" /\ Len(policies) < MaxPolicies
  /\ \E p \in Policies : policies' = Append(policies, p)
  /\ UNCHANGED <<tenantRow, trail, object, overlap, cut, request>>

\* No more policies: requests go on being decided.
OnlyDecides ==
  /\ engine = "sharing" /\ Len(policies) = MaxPolicies
  /\ UNCHANGED vars

Next == Lifecycle \/ Ask \/ AddPolicy \/ OnlyDecides \/ (engine = "tenant" /\ UNCHANGED vars)

-----------------------------------------------------------------------------
(* Properties *)

\* The lifecycle events tell how the row came to its status: they form a path of
\* allowed transitions from PROVISIONED to it, but for the one still to be
\* written.  This is lost when a worker writes over what it has not read, as
\* upsert_tenant compares nothing, or dies between its two transactions.
TrailLeadsToRow ==
  ~overlap /\ ~cut =>
    LET pending == {w \in Workers : object[w] # None /\ object[w].step = "written"}
        From(i) == IF i = 1 THEN "PROVISIONED" ELSE trail[i - 1][2]
        reached == IF trail = <<>> THEN "PROVISIONED" ELSE trail[Len(trail)][2]
    IN  /\ \A i \in DOMAIN trail : /\ trail[i][1] = From(i)
                                   /\ trail[i][1] = "DECOMMISSIONED" => trail[i][2] = "ARCHIVED"
                                   /\ trail[i][1] # "ARCHIVED"
        /\ IF pending = {} THEN tenantRow = reached
           ELSE \E w \in pending : object[w].read = reached /\ object[w].status = tenantRow

Rank(v) == CHOOSE i \in 1..3 : Verdicts[i] = v

\* A request that is riskier in every respect never gets a milder verdict.
RiskNeverHelps ==
  engine = "gate" /\ request # None =>
    \A r \in Requests :
      /\ request.phronesis => r.phronesis
      /\ request.prod => r.prod
      /\ ~request.reversible => ~r.reversible
      /\ r.radius >= request.radius
      /\ r.category = request.category /\ (r.allowed => request.allowed)
      => Rank(PreActionCheck(r)) >= Rank(PreActionCheck(request))

\* What one policy lets pass, no later policy changes: not to DENY, and not to a
\* sharing without anonymization.
PolicyStands ==
  [][\A s \in Sensitivities, n \in Counts :
       Decide(policies, s, n) # "DENY" => Decide(policies', s, n) = Decide(policies, s, n)]_policies
=============================================================================
