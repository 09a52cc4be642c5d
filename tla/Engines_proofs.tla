--------------------------- MODULE Engines_proofs ---------------------------
(***************************************************************************)
(* That what has ended stays so, for each class that promises it; that the *)
(* limits of LimitKeepers hold among all the classes; and that what the    *)
(* classes decide is sound, those of LimitKeepers included.                *)
(***************************************************************************)
EXTENDS Engines, LimitKeepers_proofs

LEMMA EngineStays == [Next]_vars => engine' = engine
BY DEF Next, KeepersNext, vars, keepersVars

\* Only a batch without a runner has ended.
BatchInv == batchStatus \in Batch!Terminal => runner = "gone"

LEMMA RequestsKeep ==
  ASSUME Batch!Requests
  PROVE  (batchStatus' \in {"cancelled", "paused"} /\ runner' = "gone") \/ batchStatus' = batchStatus
  BY Zenon DEF Batch!Requests

LEMMA BatchStep ==
  ASSUME BatchInv, Batch!Next
  PROVE  BatchInv' /\ (batchStatus \in Batch!Terminal => batchStatus' = batchStatus)
<1> USE DEF BatchInv, Batch!Terminal
<1>1. CASE Batch!Submit
  BY <1>1 DEF Batch!Submit
<1>2. CASE Batch!RunBatch
  BY <1>2 DEF Batch!RunBatch
<1>3. CASE Batch!Boundary
  BY <1>3, RequestsKeep DEF Batch!Boundary
<1>4. ASSUME NEW ok \in BOOLEAN, Batch!ProcessOne(ok)
      PROVE  BatchInv' /\ (batchStatus \in Batch!Terminal => batchStatus' = batchStatus)
  BY <1>4 DEF Batch!ProcessOne
<1>5. CASE Batch!Pause \/ Batch!Cancel
  BY <1>5 DEF Batch!Pause, Batch!Cancel
<1>6. CASE Batch!Resume
  BY <1>6 DEF Batch!Resume, Batch!ResumePaused
<1> QED BY <1>1, <1>2, <1>3, <1>4, <1>5, <1>6 DEF Batch!Next

LEMMA BatchInvariant == Spec => []BatchInv
<1>1. Init => BatchInv
  BY DEF Init, Batch!Start, BatchInv, Batch!Terminal
<1>2. BatchInv /\ [Next]_vars => BatchInv'
  <2>1. CASE Batch!Next
    BY <2>1, BatchStep
  <2>2. CASE UNCHANGED batchVars
    BY <2>2 DEF BatchInv, batchVars
  <2> QED BY <2>1, <2>2 DEF Next, vars
<1> QED BY <1>1, <1>2, PTL DEF Spec

LEMMA BatchEnds == Spec => Batch!EndedForGood
<1> DEFINE Stays == engine = "batch" /\ batchStatus \in Batch!Terminal => batchStatus' = batchStatus
<1>1. BatchInv /\ [Next]_vars => [Stays]_<<engine, Batch!vars>>
  <2>1. BatchInv /\ Batch!Next => Stays
    BY BatchStep
  <2>2. UNCHANGED batchVars => Stays
    BY DEF batchVars
  <2> HIDE DEF Stays
  <2> QED BY <2>1, <2>2 DEF Next, vars
<1> QED BY <1>1, BatchInvariant, PTL DEF Spec, Batch!EndedForGood
-----------------------------------------------------------------------------
(* Bookings *)

\* A booking that is cancelled a second time (apaleopms) is a record.
IsBooking(r) == r = [state |-> r.state, nights |-> r.nights, rooms |-> r.rooms]
HotelInv ==
  /\ DOMAIN hotelBookings = HotelIds
  /\ engine = "apaleopms" =>
       \A b \in HotelIds : Hotel!Known(b) => IsBooking(hotelBookings[b])

LEMMA BookingStep ==
  ASSUME HotelInv, engine' = engine, Hotel!Next
  PROVE  HotelInv' /\ Hotel!BookingEnds
<1> DEFINE Goal == HotelInv' /\ Hotel!BookingEnds
           Others(b) == /\ DOMAIN hotelBookings' = DOMAIN hotelBookings
                        /\ \A c \in HotelIds \ {b} : hotelBookings'[c] = hotelBookings[c]
<1> SUFFICES Goal
  OBVIOUS
<1>a. ASSUME NEW b \in HotelIds, NEW s, NEW ns, NEW r,
             hotelBookings' = [hotelBookings EXCEPT ![b] = [state |-> s, nights |-> ns, rooms |-> r]]
      PROVE  Others(b) /\ IsBooking(hotelBookings[b])'
  BY <1>a DEF HotelInv, IsBooking
<1>b. ASSUME NEW b \in HotelIds, NEW s,
             hotelBookings' = [hotelBookings EXCEPT ![b].state = s]
      PROVE  Others(b)
  BY <1>b DEF HotelInv
<1> USE DEF HotelInv, Hotel!BookingEnds, Hotel!Final, Hotel!In, Hotel!Known
<1>1. CASE UNCHANGED hotelBookings
  BY <1>1
\* A new booking.
<1>2. ASSUME NEW b \in HotelIds, Others(b), ~Hotel!Known(b), IsBooking(hotelBookings[b])'
      PROVE  Goal
  BY <1>2 DEF Others
\* Another state, of a booking that has not ended.
<1>3. ASSUME NEW b \in HotelIds, Others(b), engine # "apaleopms",
             engine \in DOMAIN Hotel!Final => ~(Hotel!Known(b) /\ Hotel!In(b, Hotel!Final[engine]))
      PROVE  Goal
  BY <1>3 DEF Others
<1>4. ASSUME NEW b \in HotelIds, Hotel!Becomes(b, "cancelled"), engine = "apaleopms", Hotel!Known(b)
      PROVE  Goal
  <2>1. IsBooking(hotelBookings[b])
    BY <1>4
  <2>2. hotelBookings[b].state = "cancelled" => hotelBookings'[b] = hotelBookings[b]
    BY <1>4, <2>1 DEF Hotel!Becomes, IsBooking
  <2>3. IsBooking(hotelBookings[b])'
    BY <1>4, <2>1 DEF Hotel!Becomes, IsBooking
  <2> QED BY <1>4, <2>1, <2>2, <2>3 DEF Hotel!Becomes
<1>5. ASSUME NEW b \in HotelIds, NEW n \in Nights, Hotel!ModifyBooking(b, n) PROVE Goal
  BY <1>5 DEF Hotel!ModifyBooking
<1> HIDE DEF IsBooking, Goal, Others, HotelInv, Hotel!BookingEnds, Hotel!Final, Hotel!In, Hotel!Known
<1>6. CASE Hotel!Read
  BY <1>1, <1>6 DEF Hotel!Read, Hotel!vars
<1>7. ASSUME NEW n \in Nights, NEW q \in 0..MaxRooms,
             Hotel!PushInventory(n, q) \/ Hotel!UpdateApaleoInventory(n, q)
      PROVE  Goal
  BY <1>1, <1>7 DEF Hotel!PushInventory, Hotel!UpdateApaleoInventory
<1>8. ASSUME NEW b \in HotelIds, NEW n \in Nights, Hotel!ConfirmBooking(b, n) PROVE Goal
  BY <1>2, <1>a, <1>8 DEF Hotel!Enter, Hotel!ConfirmBooking
<1>9. ASSUME NEW b \in HotelIds, NEW a \in Nights, NEW z \in Nights,
             Hotel!CreateMewsReservation(b, Hotel!Stay(a, z))
      PROVE  Goal
  BY <1>2, <1>a, <1>9 DEF Hotel!Enter, Hotel!CreateMewsReservation, Hotel!Stay
<1>10. ASSUME NEW b \in HotelIds, NEW a \in Nights, NEW z \in Nights, NEW r \in 1..MaxRooms,
              Hotel!CreateBooking(b, Hotel!Stay(a, z), r)
       PROVE  Goal
  BY <1>2, <1>a, <1>10 DEF Hotel!Enter, Hotel!CreateBooking, Hotel!Stay
<1>11. ASSUME NEW b \in HotelIds, Hotel!RefundBooking(b) PROVE Goal
  <2>1. Others(b)
    BY <1>b, <1>11 DEF Hotel!Becomes, Hotel!RefundBooking
  <2>2. engine = "expedia" /\ Hotel!Known(b) /\ Hotel!In(b, {"confirmed"})
    BY <1>11 DEF Hotel!RefundBooking
  <2>3. engine \in DOMAIN Hotel!Final => ~(Hotel!Known(b) /\ Hotel!In(b, Hotel!Final[engine]))
    BY <2>2 DEF Hotel!In, Hotel!Known, Hotel!Final
  <2> QED BY <1>3, <2>1, <2>2, <2>3
<1>12. ASSUME NEW b \in HotelIds, Hotel!CancelBooking(b) PROVE Goal
  BY <1>3, <1>b, <1>12 DEF Hotel!Becomes, Hotel!CancelBooking, Hotel!Cancellable,
    Hotel!In, Hotel!Known, Hotel!Final
<1>13. ASSUME NEW b \in HotelIds, Hotel!PostPayment(b) \/ Hotel!PostCharge(b) PROVE Goal
  BY <1>1, <1>13 DEF Hotel!PostPayment, Hotel!PostCharge, Hotel!Charge
<1>14. ASSUME NEW b \in HotelIds, Hotel!ConfirmReservation(b) PROVE Goal
  BY <1>2, <1>a, <1>14 DEF Hotel!Enter, Hotel!ConfirmReservation
<1>15. ASSUME NEW b \in HotelIds, Hotel!ModifyReservation(b) \/ Hotel!CancelReservation(b) PROVE Goal
  BY <1>3, <1>b, <1>15 DEF Hotel!Becomes, Hotel!ModifyReservation, Hotel!CancelReservation, Hotel!NotCancelled,
    Hotel!In, Hotel!Known, Hotel!Final
<1>16. ASSUME NEW b \in HotelIds, NEW s \in {"confirmed", "cancelled"},
              Hotel!PostReservation(b, s) \/ Hotel!CreateIbeReservation(b, s)
       PROVE  Goal
  BY <1>2, <1>a, <1>16 DEF Hotel!Enter, Hotel!PostReservation, Hotel!CreateIbeReservation
<1>17. ASSUME NEW b \in HotelIds, NEW s \in {"confirmed", "cancelled"},
              Hotel!UpdateIbeReservation(b, s) \/ Hotel!CancelIbeReservation(b)
       PROVE  Goal
  BY <1>3, <1>b, <1>17 DEF Hotel!Becomes, Hotel!UpdateIbeReservation, Hotel!CancelIbeReservation,
    Hotel!In, Hotel!Known, Hotel!Final
<1>18. ASSUME NEW b \in HotelIds, Hotel!CreateApaleoReservation(b) PROVE Goal
  BY <1>2, <1>a, <1>18 DEF Hotel!Enter, Hotel!CreateApaleoReservation
<1>19. ASSUME NEW b \in HotelIds, Hotel!CancelApaleoReservation(b) PROVE Goal
  BY <1>4, <1>19 DEF Hotel!CancelApaleoReservation, Hotel!EnsureToken
<1>20. ASSUME NEW b \in HotelIds, Hotel!MobileCheckin(b) \/ Hotel!MobileCheckout(b) PROVE Goal
  BY <1>3, <1>b, <1>20 DEF Hotel!Becomes, Hotel!MobileCheckin, Hotel!MobileCheckout,
    Hotel!In, Hotel!Known, Hotel!Final
<1>21. CASE Hotel!TokenExpires \/ \E s \in {"clean", "dirty", "inspected", "out_of_order"} : Hotel!PushRoomStatus(s)
  BY <1>1, <1>21 DEF Hotel!TokenExpires, Hotel!PushRoomStatus
<1>22. ASSUME NEW b \in HotelIds,
              \/ \E n \in Nights : Hotel!ConfirmBooking(b, n) \/ Hotel!ModifyBooking(b, n)
              \/ \E a, z \in Nights :
                   \/ Hotel!CreateMewsReservation(b, Hotel!Stay(a, z))
                   \/ \E r \in 1..MaxRooms : Hotel!CreateBooking(b, Hotel!Stay(a, z), r)
              \/ Hotel!RefundBooking(b) \/ Hotel!CancelBooking(b)
              \/ Hotel!PostPayment(b) \/ Hotel!PostCharge(b)
       PROVE  Goal
  BY <1>5, <1>8, <1>9, <1>10, <1>11, <1>12, <1>13, <1>22
<1>23. ASSUME NEW b \in HotelIds,
              \/ Hotel!ConfirmReservation(b) \/ Hotel!ModifyReservation(b)
              \/ Hotel!CancelReservation(b)
              \/ \E s \in {"confirmed", "cancelled"} :
                   \/ Hotel!PostReservation(b, s) \/ Hotel!CreateIbeReservation(b, s)
                   \/ Hotel!UpdateIbeReservation(b, s)
              \/ Hotel!CancelIbeReservation(b) \/ Hotel!CreateApaleoReservation(b)
              \/ Hotel!CancelApaleoReservation(b)
              \/ Hotel!MobileCheckin(b) \/ Hotel!MobileCheckout(b)
       PROVE  Goal
  BY <1>14, <1>15, <1>16, <1>17, <1>18, <1>19, <1>20, <1>23
<1> QED BY <1>6, <1>7, <1>21, <1>22, <1>23 DEF Hotel!Next

LEMMA HotelInvariant == Spec => []HotelInv
<1>1. Init => HotelInv
  BY DEF Init, Hotel!Start, HotelInv, Hotel!Known
<1>2. HotelInv /\ [Next]_vars => HotelInv'
  <2>1. CASE Hotel!Next /\ engine' = engine
    BY <2>1, BookingStep
  <2>2. CASE UNCHANGED <<engine, hotelVars>>
    BY <2>2 DEF HotelInv, hotelVars, Hotel!Known
  <2> QED BY <2>1, <2>2, EngineStays DEF Next, vars
<1> QED BY <1>1, <1>2, PTL DEF Spec

LEMMA BookingsEndAlways == Spec => Hotel!BookingsEnd
<1>1. HotelInv /\ [Next]_vars => [Hotel!BookingEnds]_<<engine, Hotel!vars>>
  <2>1. CASE Hotel!Next /\ engine' = engine
    BY <2>1, BookingStep
  <2>2. CASE UNCHANGED <<engine, hotelVars>>
    BY <2>2 DEF hotelVars, Hotel!BookingEnds
  <2> QED BY <2>1, <2>2, EngineStays DEF Next, vars
<1> QED BY <1>1, HotelInvariant, PTL DEF Spec, Hotel!BookingsEnd
-----------------------------------------------------------------------------
(* Policies of sharing *)

\* Only the policies of one class change, and only by one that is appended.
PolicyInv == \E n \in Nat : DOMAIN policies = 1..n

LEMMA FirstOfMore ==
  ASSUME NEW M \in SUBSET Nat, M # {}, NEW N \in SUBSET Nat, M \subseteq N,
         \A n \in N \ M : \A m \in M : m < n
  PROVE  Ten!FirstPolicy(M) \in M /\ Ten!FirstPolicy(N) = Ten!FirstPolicy(M)
<1>1. PICK f \in M : \A m \in M : f <= m
  BY LeastOf
<1>2. \A i \in M : (\A j \in M : i <= j) => i = f
  BY <1>1
<1>3. \A i \in N : (\A j \in N : i <= j) => i = f
  BY <1>1
<1>4. f \in N /\ \A j \in N : f <= j
  BY <1>1
<1>5. Ten!FirstPolicy(M) = f
  <2>1. Ten!FirstPolicy(M) \in M /\ \A j \in M : Ten!FirstPolicy(M) <= j
    BY <1>1, Zenon DEF Ten!FirstPolicy
  <2> QED BY <1>2, <2>1
<1>6. Ten!FirstPolicy(N) = f
  <2>1. Ten!FirstPolicy(N) \in N /\ \A j \in N : Ten!FirstPolicy(N) <= j
    BY <1>4, Zenon DEF Ten!FirstPolicy
  <2> QED BY <1>3, <2>1
<1> QED BY <1>1, <1>5, <1>6

LEMMA PolicyStep ==
  ASSUME PolicyInv, Ten!AddPolicy, NEW s, NEW n,
         Ten!Decide(policies, s, n) # "DENY"
  PROVE  Ten!Decide(policies', s, n) = Ten!Decide(policies, s, n)
<1> DEFINE M == {i \in DOMAIN policies : s \in policies[i].covers}
           N == {i \in DOMAIN policies' : s \in policies'[i].covers}
           f == Ten!FirstPolicy(M)
<1>1. PICK p : policies' = Append(policies, p)
  BY DEF Ten!AddPolicy
<1>2. PICK m \in Nat : DOMAIN policies = 1..m
  BY DEF PolicyInv
<1>3. DOMAIN policies' = 1..(m + 1) /\ \A i \in 1..m : policies'[i] = policies[i]
  BY <1>1, <1>2
<1>4. M # {}
  BY Zenon DEF Ten!Decide
<1>5. M \subseteq 1..m /\ N \subseteq 1..(m + 1) /\ \A i \in 1..m : i \in N <=> i \in M
  BY <1>2, <1>3
<1> HIDE DEF M, N
<1>6. f \in M /\ Ten!FirstPolicy(N) = f
  BY <1>4, <1>5, FirstOfMore
<1>7. policies'[f] = policies[f] /\ N # {}
  BY <1>3, <1>4, <1>5, <1>6
<1>8. Ten!Decide(policies, s, n) =
        IF policies[f].anonymize /\ s # "PUBLIC"
          THEN IF n < K THEN "DENY" ELSE "ALLOW_WITH_ANONYMIZATION" ELSE "ALLOW"
  BY <1>4, Zenon DEF Ten!Decide, M
<1>9. Ten!Decide(policies', s, n) =
        IF policies'[Ten!FirstPolicy(N)].anonymize /\ s # "PUBLIC"
          THEN IF n < K THEN "DENY" ELSE "ALLOW_WITH_ANONYMIZATION" ELSE "ALLOW"
  BY <1>7, Zenon DEF Ten!Decide, N
<1> QED BY <1>6, <1>7, <1>8, <1>9

LEMMA TenChanges == Ten!Next => Ten!AddPolicy \/ UNCHANGED policies
  BY DEF Ten!Next, Ten!Lifecycle, Ten!Ask, Ten!OnlyDecides, Ten!vars

LEMMA PolicyInvariant == Spec => []PolicyInv
<1>1. Init => PolicyInv
  BY DEF Init, Ten!Start, PolicyInv
<1>2. PolicyInv /\ [Next]_vars => PolicyInv'
  <2>1. CASE Ten!AddPolicy /\ PolicyInv
    <3>1. PICK p : policies' = Append(policies, p)
      BY <2>1 DEF Ten!AddPolicy
    <3>2. PICK m \in Nat : DOMAIN policies = 1..m
      BY <2>1 DEF PolicyInv
    <3>3. DOMAIN policies' = 1..(m + 1) /\ m + 1 \in Nat
      BY <3>1, <3>2
    <3> QED BY <3>3 DEF PolicyInv
  <2>2. CASE UNCHANGED policies
    BY <2>2 DEF PolicyInv
  <2> QED BY <2>1, <2>2, TenChanges DEF Next, vars, tenVars
<1> QED BY <1>1, <1>2, PTL DEF Spec

LEMMA PoliciesStand == Spec => Ten!PolicyStands
<1> DEFINE Stands == \A s \in Ten!Sensitivities, n \in Counts :
             Ten!Decide(policies, s, n) # "DENY" =>
               Ten!Decide(policies', s, n) = Ten!Decide(policies, s, n)
<1>1. PolicyInv /\ [Next]_vars => [Stands]_policies
  <2>1. PolicyInv /\ Ten!AddPolicy => Stands
    BY PolicyStep
  <2> HIDE DEF Stands
  <2> QED BY <2>1, TenChanges DEF Next, vars, tenVars
<1> QED BY <1>1, PolicyInvariant, PTL DEF Spec, Ten!PolicyStands

-----------------------------------------------------------------------------
(* Healing *)

LEMMA HealingEnded == Spec => [][Cell!HealingEnds]_cellVars
<1>1. [Next]_vars => [Cell!HealingEnds]_cellVars
  <2>1. ASSUME NEW p \in Cell!Range(Cell!Phases) \cup {"aborted"}, Cell!Transition(p)
        PROVE  Cell!HealingEnds
    BY <2>1 DEF Cell!Transition, Cell!MayFollow, Cell!Allowed, Cell!HealingEnds
  <2>2. CASE UNCHANGED phase
    BY <2>2 DEF Cell!HealingEnds
  <2>3. Cell!Next => UNCHANGED phase \/
          \E p \in Cell!Range(Cell!Phases) \cup {"aborted"} : Cell!Transition(p)
    BY DEF Cell!Next, Cell!Signal, Cell!ProtectPendingDecision, Cell!ProtectionLapses,
      Cell!ReleaseProtection, Cell!RunCascade, Cell!PurgeHotel, Cell!Refuse, Cell!AppendEvent,
      Cell!Cascade, Cell!Reset, Cell!ReadSince, Cell!DeleteEvents, Cell!IncrementLoad,
      Cell!GrantConsent, Cell!RevokeConsent, Cell!PurgeHotelData, Cell!vars, Cell!healVars
  <2> QED BY <2>1, <2>2, <2>3 DEF Next, vars
<1> QED BY <1>1, PTL DEF Spec
-----------------------------------------------------------------------------
(* Canaries of capital *)

\* A canary of capital leaves its verdict only by a new deployment.
LEMMA DecidedForGoodAlways == Spec => Roll!DecidedForGood
<1> DEFINE Stays == (engine = "capital" /\ rollStatus # "active") =>
                      (rollStatus' = rollStatus \/ rollRuns' = 0)
<1>1. Roll!Next => Stays
  BY DEF Roll!Next, Roll!RegisterVariants, Roll!SetRule, Roll!ReadRule, Roll!ReadState,
    Roll!GetValue, Roll!Decide, Roll!SetState, Roll!SetPercentageRollout, Roll!EmergencyOff,
    Roll!ClearEmergency, Roll!Tick, Roll!RecordOutcome, Roll!DeployCanary, Roll!RegisterOther,
    Roll!UnregisterOther, Roll!Advance, Roll!TriggerManualOverride, Roll!CheckRollback,
    Roll!NewRollout, Roll!RecordPerformance, Roll!Judged, Roll!capitalVars
<1>2. [Next]_vars => [Stays]_(Roll!vars)
  <2>1. UNCHANGED rollVars => UNCHANGED Roll!vars
    BY DEF rollVars, Roll!vars, Roll!callVars, Roll!flagVars, Roll!tradeVars, Roll!canaryVars,
      Roll!capitalVars
  <2> HIDE DEF Stays
  <2> QED BY <1>1, <2>1 DEF Next, vars, KeepersNext, keepersVars
<1> QED BY <1>2, PTL DEF Spec, Roll!DecidedForGood
-----------------------------------------------------------------------------
\* The classes that keep limits, among the others, behave as they do alone.
LEMMA KeepersAmong == Spec => KeepersSpec
<1>1. Init => KeepersInit
  BY DEF Init
<1>2. [Next]_vars => [KeepersNext]_keepersVars
  BY DEF Next, vars
<1> QED BY <1>1, <1>2, PTL DEF Spec, KeepersSpec

\* The limits hold in every behaviour of all the classes.
THEOREM EnginesKeepLimits == Spec => []LimitsHold
BY KeepersAmong, LimitsKept, PTL

\* What has ended or was decided stays so, whatever the callers go on to do: a batch, the
\* verdict on a canary of capital, a booking, a policy that lets pass, a healing, a policy
\* at a score that stands still, an incident.
THEOREM EndedStaysEnded == Spec => EndsForGood
<1>1. Spec => [][Signal!PolicySettles /\ Signal!IncidentHolds]_signalVars
  BY KeepersAmong, SignalsSettle, Zenon
<1> QED BY <1>1, BatchEnds, DecidedForGoodAlways, BookingsEndAlways, PoliciesStand, HealingEnded,
           Zenon DEF EndsForGood
-----------------------------------------------------------------------------
LEMMA EngineAssumptionsHold == CampaignAssumption /\ RadiiAssumption
BY EngineAssumptions

-----------------------------------------------------------------------------
(* Campaigns of chaos *)

SlotFields == {"health", "consumed", "q", "cut", "lies", "crashed"}
IsSlot(x) == DOMAIN x = SlotFields /\ x.health \in 0..100 /\ x.consumed \in 0..100

\* Only a running campaign protects what nobody else asked for.
CampaignInv ==
  /\ DOMAIN slot = CampaignSlots /\ \A s \in CampaignSlots : IsSlot(slot[s])
  /\ DOMAIN campaignProtected = CampaignDecisions
  /\ campaign = None \/ campaign \in [step : Nat, judged : SUBSET CampaignDecisions]
  /\ ~vetoed
  /\ \A d \in CampaignDecisions :
       campaignProtected[d] # None => d \in outside \/ (campaign # None /\ d \in Protects)

CampaignHolds == Campaign!HealthInRange /\ Campaign!ProtectionHolds

LEMMA CampaignHoldsAlways == ASSUME CampaignInv PROVE CampaignHolds
BY DEF CampaignInv, IsSlot, CampaignHolds, Campaign!HealthInRange, Campaign!ProtectionHolds

LEMMA CampaignStart == ASSUME Campaign!Start PROVE CampaignInv
BY DEF Campaign!Start, Campaign!Healthy, CampaignInv, IsSlot, SlotFields

LEMMA CampaignStands == ASSUME CampaignInv, UNCHANGED campaignVars PROVE CampaignInv'
BY DEF CampaignInv, campaignVars

Part(h, i) == (h * (10000 - 70 * i)) \div 10000

LEMMA PartOfHealth ==
  ASSUME NEW h \in 0..100, NEW i \in 0..100
  PROVE  Part(h, i) \in 0..100
<1> DEFINE k == 10000 - 70 * i
           p == h * k
<1>1. k \in Nat /\ k <= 10000
  OBVIOUS
<1> HIDE DEF k
<1>2. p \in Nat /\ p <= 1000000
  <2>1. h \in Nat /\ h <= 100
    OBVIOUS
  <2>2. h * k \in Nat /\ h * k <= 100 * k
    BY <1>1, <2>1
  <2> QED BY <1>1, <2>2
<1> HIDE DEF p
<1>3. p \div 10000 \in 0..100
  BY <1>2
<1> QED BY <1>3 DEF p, k, Part

\* Whatever fails, a slot is one, and its health within its range.
LEMMA AppliedKeeps ==
  ASSUME NEW x, IsSlot(x), NEW kind \in Campaign!Kinds, NEW i \in 0..100
  PROVE  IsSlot(Campaign!Applied(x, kind, i))
<1> DEFINE y == Campaign!Applied(x, kind, i)
<1>1. x.health \in 0..100 /\ x.consumed \in 0..100 /\ DOMAIN x = SlotFields
  BY DEF IsSlot
<1>2. ASSUME NEW h \in 0..100, NEW n \in Int, n <= h PROVE Campaign!Floor(n) \in 0..100
  BY <1>2 DEF Campaign!Floor
<1>3. ASSUME NEW n \in Int, n <= 100 PROVE Campaign!Floor(n) \in 0..100
  BY <1>2, <1>3
<1>4. i \div 2 \in Nat /\ (30 * i) \div 100 \in Nat
  OBVIOUS
<1>5. CASE kind = "slot_crash"
  <2>1. CASE i >= 50
    <3>1. y = [x EXCEPT !.crashed = TRUE, !.health = 0]
      BY <1>5, <2>1 DEF Campaign!Applied
    <3> QED BY <1>1, <3>1 DEF IsSlot, SlotFields
  <2>2. CASE i < 50
    <3>1. y = [x EXCEPT !.health = Campaign!Floor(@ - i)]
      BY <1>5, <2>2 DEF Campaign!Applied
    <3>2. Campaign!Floor(x.health - i) \in 0..100
      BY <1>1, <1>3
    <3> QED BY <1>1, <3>1, <3>2 DEF IsSlot, SlotFields
  <2> QED BY <2>1, <2>2
<1>6. CASE kind = "token_starvation"
  <2> DEFINE c == Campaign!Least(x.consumed + i, 100)
  <2>1. y = [x EXCEPT !.consumed = c, !.health = Campaign!Floor(100 - c)]
    BY <1>6 DEF Campaign!Applied, Campaign!Starved
  <2>2. c \in 0..100
    BY <1>1 DEF Campaign!Least
  <2> HIDE DEF c
  <2>3. Campaign!Floor(100 - c) \in 0..100
    BY <1>3, <2>2
  <2> QED BY <1>1, <2>1, <2>2, <2>3 DEF IsSlot, SlotFields
<1>7. CASE kind = "network_partition"
  <2> DEFINE h == Part(x.health, i)
             b == x.cut \/ i >= 50
  <2>1. y = [x EXCEPT !.cut = @ \/ i >= 50, !.health = Part(@, i)]
    BY <1>7 DEF Campaign!Applied, Part
  <2>2. h \in 0..100
    BY <1>1, PartOfHealth
  <2>3. y = [x EXCEPT !.cut = b, !.health = h]
    BY <2>1
  <2> HIDE DEF h, b
  <2> QED BY <1>1, <2>2, <2>3 DEF IsSlot, SlotFields
<1>8. CASE kind = "byzantine_fault"
  <2> DEFINE n == x.q + i \div 2
  <2>1. y = [x EXCEPT !.lies = TRUE, !.q = n]
    BY <1>8 DEF Campaign!Applied
  <2> HIDE DEF n
  <2> QED BY <1>1, <2>1 DEF IsSlot, SlotFields
<1>9. CASE kind = "governance_drift"
  <2> DEFINE n == IF x.q >= 0 THEN 200 + i ELSE -200 - i
             h == Campaign!Floor(x.health - (30 * i) \div 100)
  <2>1. y = [x EXCEPT !.q = n, !.health = h]
    BY <1>9 DEF Campaign!Applied
  <2>2. h \in 0..100
    BY <1>1, <1>3, <1>4
  <2> HIDE DEF n, h
  <2> QED BY <1>1, <2>1, <2>2 DEF IsSlot, SlotFields
<1>10. CASE kind = "heartbeat_timeout"
  <2> DEFINE h == Campaign!Floor(x.health - i \div 2)
  <2>1. y = [x EXCEPT !.health = h]
    BY <1>10 DEF Campaign!Applied
  <2>2. h \in 0..100
    BY <1>1, <1>3, <1>4
  <2> HIDE DEF h
  <2> QED BY <1>1, <2>1, <2>2 DEF IsSlot, SlotFields
<1> QED BY <1>5, <1>6, <1>7, <1>8, <1>9, <1>10 DEF Campaign!Kinds

LEMMA InjectKeeps ==
  ASSUME CampaignInv, NEW s, NEW kind \in Campaign!Kinds, NEW i \in 0..100,
         Campaign!Inject(s, kind, i)
  PROVE  DOMAIN slot' = CampaignSlots /\ \A r \in CampaignSlots : IsSlot(slot'[r])
<1>1. \A x : IsSlot(x) => IsSlot(Campaign!Applied(x, kind, i))
  BY AppliedKeeps
<1> DEFINE x == Campaign!Applied(slot[s], kind, i)
<1>2. slot' = [slot EXCEPT ![s] = x]
  BY DEF Campaign!Inject
<1>3. s \in CampaignSlots => IsSlot(x)
  BY <1>1 DEF CampaignInv
<1> HIDE DEF x
<1> QED BY <1>2, <1>3 DEF CampaignInv

LEMMA CampaignStep == ASSUME CampaignInv, Campaign!Next PROVE CampaignInv'
<1>0. CampaignAssumption
  BY EngineAssumptionsHold
<1> DEFINE Record == [step : Nat, judged : SUBSET CampaignDecisions]
           SlotsStay == DOMAIN slot' = CampaignSlots /\ \A s \in CampaignSlots : IsSlot(slot'[s])
           Kept(n, out, c) ==
             \A d \in CampaignDecisions :
               n[d] # None => d \in out \/ (c # None /\ d \in Protects)
           Prot == /\ DOMAIN campaignProtected' = CampaignDecisions
                   /\ Kept(campaignProtected', outside', campaign')
<1>1. /\ DOMAIN slot = CampaignSlots /\ \A s \in CampaignSlots : IsSlot(slot[s])
      /\ DOMAIN campaignProtected = CampaignDecisions
      /\ campaign = None \/ campaign \in Record
      /\ ~vetoed
      /\ Kept(campaignProtected, outside, campaign)
  BY DEF CampaignInv
<1>2. SlotsStay /\ (campaign' = None \/ campaign' \in Record) /\ ~vetoed' /\ Prot => CampaignInv'
  BY DEF CampaignInv
<1>3. None \notin Record
  BY <1>0 DEF CampaignAssumption
<1>4. slot' = slot => SlotsStay
  BY <1>1
<1>5. UNCHANGED <<campaignProtected, outside, campaign>> => Prot
  BY <1>1
<1>6. ASSUME NEW s \in CampaignSlots, NEW m \in Campaign!Kinds, NEW i \in Intensities, Campaign!InjectAlone(s, m, i)
      PROVE  CampaignInv'
  <2>1. SlotsStay
    BY <1>0, <1>6, InjectKeeps DEF Campaign!InjectAlone, CampaignAssumption
  <2> HIDE DEF SlotsStay, Prot
  <2> QED BY <1>1, <1>2, <1>5, <1>6, <2>1 DEF Campaign!InjectAlone
<1>7. ASSUME NEW s \in CampaignSlots, Campaign!ResetSlot(s) PROVE CampaignInv'
  <2>1. IsSlot(Campaign!Healthy)
    BY DEF Campaign!Healthy, IsSlot, SlotFields
  <2>2. SlotsStay
    BY <1>1, <1>7, <2>1 DEF Campaign!ResetSlot
  <2> HIDE DEF SlotsStay, Prot
  <2> QED BY <1>1, <1>2, <1>5, <1>7, <2>2 DEF Campaign!ResetSlot
<1>8. ASSUME NEW d \in CampaignDecisions, Campaign!ProtectDecision(d) PROVE CampaignInv'
  <2>1. Prot
    BY <1>1, <1>8 DEF Campaign!ProtectDecision
  <2> HIDE DEF SlotsStay, Prot
  <2> QED BY <1>1, <1>2, <1>4, <1>8, <2>1 DEF Campaign!ProtectDecision
<1>9. ASSUME NEW d \in CampaignDecisions, Campaign!ReleaseProtection(d) PROVE CampaignInv'
  <2>1. Prot
    BY <1>1, <1>9 DEF Campaign!ReleaseProtection
  <2> HIDE DEF SlotsStay, Prot
  <2> QED BY <1>1, <1>2, <1>4, <1>9, <2>1 DEF Campaign!ReleaseProtection
<1>10. CASE Campaign!Tick
  <2>1. Prot
    BY <1>1, <1>10 DEF Campaign!Tick, Campaign!IsProtected
  <2> HIDE DEF SlotsStay, Prot
  <2> QED BY <1>1, <1>2, <1>4, <1>10, <2>1 DEF Campaign!Tick
<1>11. CASE Campaign!BeginCampaign
  <2>1. campaign' \in Record /\ campaign' # None
    BY <1>3, <1>11 DEF Campaign!BeginCampaign
  <2>2. Prot
    BY <1>1, <1>11, <2>1 DEF Campaign!BeginCampaign
  <2> HIDE DEF SlotsStay, Prot
  <2> QED BY <1>1, <1>2, <1>4, <1>11, <2>1, <2>2 DEF Campaign!BeginCampaign
<1>12. CASE Campaign!EndCampaign
  <2>1. Prot
    BY <1>1, <1>12 DEF Campaign!EndCampaign, Campaign!Released
  <2> HIDE DEF SlotsStay, Prot
  <2> QED BY <1>1, <1>2, <1>4, <1>12, <2>1 DEF Campaign!EndCampaign
<1>13. ASSUME NEW i \in Intensities, Campaign!CampaignStep(i) PROVE CampaignInv'
  <2>1. campaign \in Record /\ campaign.step < Len(Modes) /\ campaign' = [campaign EXCEPT !.step = @ + 1]
    BY <1>1, <1>13 DEF Campaign!CampaignStep
  <2>2. campaign' \in Record /\ campaign' # None
    BY <1>3, <2>1
  <2>3. campaign.step + 1 \in 1..Len(Modes)
    BY <1>0, <2>1 DEF CampaignAssumption
  <2>4. Modes[campaign.step + 1] \in Campaign!Kinds
    BY <1>0, <2>3, ElementOfSeq DEF CampaignAssumption, Campaign!Kinds
  <2>5. i \in 0..100 /\ Campaign!Inject(Target, Modes[campaign.step + 1], i)
    BY <1>0, <1>13 DEF CampaignAssumption, Campaign!CampaignStep
  <2>6. SlotsStay
    BY <2>4, <2>5, InjectKeeps
  <2>7. Prot
    BY <1>1, <1>13, <2>1, <2>2, <1>3 DEF Campaign!CampaignStep
  <2> HIDE DEF SlotsStay, Prot
  <2> QED BY <1>1, <1>2, <1>13, <2>2, <2>6, <2>7 DEF Campaign!CampaignStep
<1>14. ASSUME NEW d \in CampaignDecisions, Campaign!JudgeDecision(d) PROVE CampaignInv'
  <2>1. campaign \in Record /\ campaign' = [campaign EXCEPT !.judged = @ \cup {d}]
    BY <1>1, <1>14 DEF Campaign!JudgeDecision
  <2>2. campaign' \in Record /\ campaign' # None
    BY <1>3, <2>1
  <2>3. ~vetoed'
    BY <1>1, <1>14, Zenon DEF Campaign!JudgeDecision, Campaign!Spared
  <2>4. campaignProtected' = Campaign!Looked({d} \cup Protects) /\ outside' = outside
    BY <1>14 DEF Campaign!JudgeDecision
  <2>5. Prot
    BY <1>1, <2>1, <2>2, <2>4, <1>3 DEF Campaign!Looked
  <2> HIDE DEF SlotsStay, Prot
  <2> QED BY <1>2, <1>4, <1>14, <2>2, <2>3, <2>5 DEF Campaign!JudgeDecision
<1> HIDE DEF SlotsStay, Prot, Kept, Record
<1> QED BY <1>6, <1>7, <1>8, <1>9, <1>10, <1>11, <1>12, <1>13, <1>14 DEF Campaign!Next

-----------------------------------------------------------------------------
(* Configurations of nginx *)

IsJob(j) ==
  /\ DOMAIN j = {"phase", "config", "done"}
  /\ j.phase # "idle" => j.config \in approved
  /\ j.phase = "healthy" => j.config \in proven

NginxInv ==
  /\ \A i \in Nginx!Instances :
       /\ running[i] \in approved \cup {None}
       /\ nginxCurrent[i] \in proven \cup {None} /\ previous[i] \in proven \cup {None}
  /\ DOMAIN nginxJob = NginxCallers /\ \A t \in NginxCallers : IsJob(nginxJob[t])

\* The depth counts the blocks that are open, until one brace too many has ended the root.
ParseInv ==
  /\ opened = <<opened[1], opened[2]>> /\ opened[1] \in Nat /\ opened[2] \in Nat
  /\ \/ depth \in Nat /\ depth # None /\ opened[1] = opened[2] + depth
     \/ depth = None /\ opened[2] = opened[1] + 1
  /\ nginxVerdict = "accepted" => depth = None \/ depth = 0

NginxHolds == Nginx!RecordedIsProven /\ Nginx!AcceptedIsBalanced

LEMMA NginxHoldsAlways == ASSUME NginxInv, ParseInv PROVE NginxHolds
<1>1. Nginx!RecordedIsProven
  BY DEF NginxInv, Nginx!RecordedIsProven
<1>2. Nginx!AcceptedIsBalanced
  BY DEF ParseInv, Nginx!AcceptedIsBalanced
<1> QED BY <1>1, <1>2 DEF NginxHolds

LEMMA NginxStart == ASSUME Nginx!Start PROVE NginxInv /\ ParseInv
<1>0. None \notin Int
  BY AssumptionsHold DEF GuestAssumption
<1>1. NginxInv
  BY DEF Nginx!Start, Nginx!Idle, NginxInv, IsJob
<1>2. ParseInv
  BY <1>0 DEF Nginx!Start, ParseInv
<1> QED BY <1>1, <1>2

LEMMA NginxStands == ASSUME NginxInv, ParseInv, UNCHANGED nginxVars PROVE (NginxInv /\ ParseInv)'
<1>1. NginxInv'
  BY DEF NginxInv, IsJob, nginxVars
<1>2. ParseInv'
  BY DEF ParseInv, nginxVars
<1> QED BY <1>1, <1>2

LEMMA JobMoves ==
  ASSUME NEW j, DOMAIN j = {"phase", "config", "done"}, NEW p, NEW d
  PROVE  /\ DOMAIN [j EXCEPT !.phase = p, !.done = d] = {"phase", "config", "done"}
         /\ [j EXCEPT !.phase = p, !.done = d].phase = p
         /\ [j EXCEPT !.phase = p, !.done = d].config = j.config
OBVIOUS

\* The job of one caller goes on; what is approved and proven stays so.
LEMMA JobBecomes ==
  ASSUME NginxInv, NEW t \in NginxCallers, NEW j, nginxJob' = [nginxJob EXCEPT ![t] = j],
         approved \subseteq approved', proven \subseteq proven',
         DOMAIN j = {"phase", "config", "done"}, j.phase # "idle" => j.config \in approved',
         j.phase = "healthy" => j.config \in proven',
         \A i \in Nginx!Instances :
           /\ running'[i] \in approved' \cup {None}
           /\ nginxCurrent'[i] \in proven' \cup {None} /\ previous'[i] \in proven' \cup {None}
  PROVE  NginxInv'
<1>1. \A s \in NginxCallers : nginxJob'[s] = IF s = t THEN j ELSE nginxJob[s]
  BY DEF NginxInv
<1>2. \A s \in NginxCallers : IsJob(nginxJob[s])
  BY DEF NginxInv
<1>3. ASSUME NEW s \in NginxCallers PROVE IsJob(nginxJob[s])'
  <2>1. CASE s = t
    BY <1>1, <2>1 DEF IsJob
  <2>2. CASE s # t
    BY <1>1, <1>2, <2>2 DEF IsJob
  <2> QED BY <2>1, <2>2
<1>4. DOMAIN nginxJob' = NginxCallers
  BY DEF NginxInv
<1> QED BY <1>3, <1>4 DEF NginxInv, Nginx!Instances

LEMMA DistributorStep ==
  ASSUME NginxInv, NEW t \in NginxCallers
  PROVE  /\ \A c \in Configs : Nginx!Distribute(t, c) => NginxInv'
         /\ Nginx!Record(t) \/ Nginx!Rollback(t) => NginxInv'
         /\ \A reached \in 0..Cluster : Nginx!Deploy(t, reached) => NginxInv'
         /\ \A healthy \in BOOLEAN : Nginx!Healthcheck(t, healthy) => NginxInv'
<1> DEFINE Runs(r, a) == \A i \in Nginx!Instances : r[i] \in a \cup {None}
<1>0. /\ Runs(running, approved) /\ Runs(nginxCurrent, proven) /\ Runs(previous, proven)
      /\ IsJob(nginxJob[t]) /\ DOMAIN nginxJob = NginxCallers
  BY DEF NginxInv
<1>1. ASSUME NEW j, nginxJob' = [nginxJob EXCEPT ![t] = j],
             approved \subseteq approved', proven \subseteq proven',
             DOMAIN j = {"phase", "config", "done"}, j.phase # "idle" => j.config \in approved',
             j.phase = "healthy" => j.config \in proven',
             Runs(running', approved'), Runs(nginxCurrent', proven'), Runs(previous', proven')
      PROVE  NginxInv'
  BY <1>1, JobBecomes
<1>2. IsJob(Nginx!Idle) /\ Nginx!Idle.phase = "idle"
  BY DEF Nginx!Idle, IsJob
<1>3. ASSUME NEW c \in Configs, Nginx!Distribute(t, c) PROVE NginxInv'
  <2> DEFINE j == [phase |-> "resolved", config |-> c, done |-> {}]
  <2>1. approved' = approved \cup {c} /\ UNCHANGED <<running, nginxCurrent, previous, proven>>
    BY <1>3 DEF Nginx!Distribute, Nginx!Approved
  <2>2. nginxJob' = [nginxJob EXCEPT ![t] = j]
    BY <1>3 DEF Nginx!Distribute
  <2>3. DOMAIN j = {"phase", "config", "done"} /\ j.phase = "resolved" /\ j.config = c
    OBVIOUS
  <2> HIDE DEF j
  <2>4. Runs(running', approved') /\ Runs(nginxCurrent', proven') /\ Runs(previous', proven')
    BY <1>0, <2>1
  <2> HIDE DEF Runs
  <2> QED BY <1>1, <2>1, <2>2, <2>3, <2>4
<1>4. ASSUME Nginx!Record(t) PROVE NginxInv'
  <2>1. /\ previous' = nginxCurrent /\ nginxCurrent' = [i \in Nginx!Instances |-> nginxJob[t].config]
        /\ nginxJob' = [nginxJob EXCEPT ![t] = Nginx!Idle] /\ UNCHANGED <<approved, running, proven>>
        /\ nginxJob[t].config \in proven
    BY <1>0, <1>4 DEF Nginx!Record, IsJob
  <2>2. Runs(running', approved') /\ Runs(nginxCurrent', proven') /\ Runs(previous', proven')
    BY <1>0, <2>1
  <2> HIDE DEF Runs
  <2> QED BY <1>1, <1>2, <2>1, <2>2 DEF IsJob
<1>5. ASSUME Nginx!Rollback(t) PROVE NginxInv'
  <2>1. /\ nginxCurrent' = Nginx!RolledBack(nginxJob[t].done)
        /\ previous' = [i \in Nginx!Instances |-> IF i \in nginxJob[t].done THEN None ELSE previous[i]]
        /\ nginxJob' = [nginxJob EXCEPT ![t] = Nginx!Idle] /\ UNCHANGED <<approved, running, proven>>
    BY <1>5 DEF Nginx!Rollback
  <2>2. Runs(running', approved') /\ Runs(nginxCurrent', proven') /\ Runs(previous', proven')
    BY <1>0, <2>1 DEF Nginx!RolledBack
  <2> HIDE DEF Runs
  <2> QED BY <1>1, <1>2, <2>1, <2>2 DEF IsJob
<1>6. ASSUME NEW reached \in 0..Cluster, Nginx!Deploy(t, reached) PROVE NginxInv'
  <2> DEFINE p == IF reached = Cluster THEN "deployed" ELSE "failing"
             d == 1..reached
             j == [nginxJob[t] EXCEPT !.phase = p, !.done = d]
  <2>1. /\ nginxJob[t].phase = "resolved"
        /\ running' = [i \in Nginx!Instances |-> IF i <= reached THEN nginxJob[t].config ELSE running[i]]
        /\ nginxJob' = [nginxJob EXCEPT ![t].phase = p, ![t].done = d]
        /\ UNCHANGED <<approved, nginxCurrent, previous, proven>>
    BY <1>6 DEF Nginx!Deploy
  <2>2. p # "healthy" /\ nginxJob[t].config \in approved
    BY <1>0, <2>1 DEF IsJob
  <2>3. Runs(running', approved') /\ Runs(nginxCurrent', proven') /\ Runs(previous', proven')
    BY <1>0, <2>1, <2>2
  <2> HIDE DEF Runs, p, d
  <2>4. nginxJob' = [nginxJob EXCEPT ![t] = j]
    BY <1>0, <2>1
  <2>5. DOMAIN j = {"phase", "config", "done"} /\ j.phase = p /\ j.config = nginxJob[t].config
    BY <1>0, JobMoves DEF IsJob
  <2> HIDE DEF j
  <2> QED BY <1>1, <2>1, <2>2, <2>3, <2>4, <2>5
<1>7. ASSUME NEW healthy \in BOOLEAN, Nginx!Healthcheck(t, healthy) PROVE NginxInv'
  <2> DEFINE p == IF healthy THEN "healthy" ELSE "failing"
             j == [nginxJob[t] EXCEPT !.phase = p]
  <2>1. /\ nginxJob[t].phase = "deployed"
        /\ nginxJob' = [nginxJob EXCEPT ![t].phase = p]
        /\ proven' = IF healthy THEN proven \cup {nginxJob[t].config} ELSE proven
        /\ UNCHANGED <<approved, running, nginxCurrent, previous>>
    BY <1>7 DEF Nginx!Healthcheck, Nginx!Passed
  <2>2. nginxJob[t].config \in approved /\ (p = "healthy" => nginxJob[t].config \in proven') /\ proven \subseteq proven'
    BY <1>0, <2>1 DEF IsJob
  <2>3. Runs(running', approved') /\ Runs(nginxCurrent', proven') /\ Runs(previous', proven')
    BY <1>0, <2>1, <2>2
  <2> HIDE DEF Runs, p
  <2>4. nginxJob' = [nginxJob EXCEPT ![t] = j]
    BY <1>0, <2>1
  <2>5. DOMAIN j = {"phase", "config", "done"} /\ j.phase = p /\ j.config = nginxJob[t].config
    BY <1>0 DEF IsJob
  <2> HIDE DEF j
  <2> QED BY <1>1, <2>1, <2>2, <2>3, <2>4, <2>5
<1> QED BY <1>3, <1>4, <1>5, <1>6, <1>7

LEMMA NginxQuiet ==
  ASSUME NginxInv, UNCHANGED <<approved, running, nginxCurrent, previous, proven, nginxJob>>
  PROVE  NginxInv'
BY DEF NginxInv, IsJob

LEMMA ForcedBack == ASSUME NginxInv, NEW c, Nginx!ForceRollback(c) PROVE NginxInv'
<1> DEFINE deps == {i \in Nginx!Instances : nginxCurrent[i] = c}
<1>1. /\ nginxCurrent' = Nginx!RolledBack(deps)
      /\ previous' = [i \in Nginx!Instances |-> IF i \in deps THEN None ELSE previous[i]]
      /\ UNCHANGED <<approved, running, proven, nginxJob>>
  BY DEF Nginx!ForceRollback
<1> HIDE DEF deps
<1> QED BY <1>1 DEF NginxInv, IsJob, Nginx!RolledBack

LEMMA ParserStep ==
  ASSUME ParseInv, \/ Nginx!ReadWord \/ Nginx!ReadSemicolon \/ Nginx!ReadOpen \/ Nginx!ReadClose
                   \/ Nginx!ReadAfterEnd \/ Nginx!EndOfSource \/ Nginx!ParseNext
  PROVE  ParseInv'
<1>0. None \notin Int
  BY AssumptionsHold DEF GuestAssumption
<1> USE DEF ParseInv
<1>1. CASE Nginx!ReadWord \/ Nginx!ReadSemicolon \/ Nginx!ReadAfterEnd
  BY <1>1 DEF Nginx!ReadWord, Nginx!ReadSemicolon, Nginx!ReadAfterEnd, Nginx!Reading
<1>2. CASE Nginx!ReadOpen
  BY <1>0, <1>2 DEF Nginx!ReadOpen, Nginx!Reading
<1>3. CASE Nginx!ReadClose
  BY <1>0, <1>3 DEF Nginx!ReadClose, Nginx!Reading
<1>4. CASE Nginx!EndOfSource
  BY <1>4 DEF Nginx!EndOfSource, Nginx!EndsWell
<1>5. CASE Nginx!ParseNext
  BY <1>0, <1>5 DEF Nginx!ParseNext
<1> QED BY <1>1, <1>2, <1>3, <1>4, <1>5

LEMMA NginxStep == ASSUME NginxInv, ParseInv, Nginx!Next PROVE (NginxInv /\ ParseInv)'
<1> DEFINE Goal == NginxInv' /\ ParseInv'
<1>0. UNCHANGED <<depth, opened, nginxVerdict>> => ParseInv'
  BY DEF ParseInv
<1>1. ASSUME NEW c \in Configs, NEW v \in Validators,
             Nginx!VoteLapses(c, v) \/ \E x \in NginxVerdicts : Nginx!SubmitVote(c, v, x)
      PROVE  Goal
  BY <1>0, <1>1, NginxQuiet DEF Nginx!VoteLapses, Nginx!SubmitVote, Nginx!runVars, Nginx!parseVars
<1>2. ASSUME NEW c \in Configs, Nginx!PurgeProposal(c) PROVE Goal
  BY <1>0, <1>2, NginxQuiet DEF Nginx!PurgeProposal, Nginx!runVars, Nginx!parseVars
<1>3. ASSUME NEW c \in Configs, Nginx!ForceRollback(c) PROVE Goal
  BY <1>0, <1>3, ForcedBack DEF Nginx!ForceRollback, Nginx!parseVars
<1>4. ASSUME NEW t \in NginxCallers, NEW c \in Configs, Nginx!Distribute(t, c) PROVE Goal
  BY <1>0, <1>4, DistributorStep DEF Nginx!Distribute, Nginx!parseVars
<1>5. ASSUME NEW t \in NginxCallers, Nginx!Record(t) \/ Nginx!Rollback(t) PROVE Goal
  BY <1>0, <1>5, DistributorStep DEF Nginx!Record, Nginx!Rollback, Nginx!parseVars
<1>6. ASSUME NEW t \in NginxCallers, NEW reached \in 0..Cluster, Nginx!Deploy(t, reached) PROVE Goal
  BY <1>0, <1>6, DistributorStep DEF Nginx!Deploy, Nginx!parseVars
<1>7. ASSUME NEW t \in NginxCallers, NEW healthy \in BOOLEAN, Nginx!Healthcheck(t, healthy) PROVE Goal
  BY <1>0, <1>7, DistributorStep DEF Nginx!Healthcheck, Nginx!parseVars
<1>8. ASSUME \/ Nginx!ReadWord \/ Nginx!ReadSemicolon \/ Nginx!ReadOpen \/ Nginx!ReadClose
             \/ Nginx!ReadAfterEnd \/ Nginx!EndOfSource \/ Nginx!ParseNext
      PROVE  Goal
  <2>1. UNCHANGED <<approved, running, nginxCurrent, previous, proven, nginxJob>>
    BY <1>8 DEF Nginx!ReadWord, Nginx!ReadSemicolon, Nginx!ReadOpen, Nginx!ReadClose,
      Nginx!ReadAfterEnd, Nginx!EndOfSource, Nginx!ParseNext, Nginx!runVars
  <2> QED BY <1>8, <2>1, NginxQuiet, ParserStep
<1> HIDE DEF Goal
<1>9. Goal
  BY <1>1, <1>2, <1>3, <1>4, <1>5, <1>6, <1>7, <1>8 DEF Nginx!Next
<1> QED BY <1>9 DEF Goal

-----------------------------------------------------------------------------
(* The gate before an action of a tenant *)

RequestInv == request = None \/ request \in Ten!Requests

RequestHolds == Ten!RiskNeverHelps

LEMMA RequestStart == ASSUME Ten!Start PROVE RequestInv
BY DEF Ten!Start, RequestInv

LEMMA RequestStep == ASSUME RequestInv, Ten!Next PROVE RequestInv'
BY DEF Ten!Next, Ten!Lifecycle, Ten!Ask, Ten!AddPolicy, Ten!OnlyDecides, Ten!vars, RequestInv

LEMMA RequestStands == ASSUME RequestInv, UNCHANGED tenVars PROVE RequestInv'
BY DEF RequestInv, tenVars

LEMMA RanksOfVerdicts ==
  Ten!Rank("APPROVED") = 1 /\ Ten!Rank("ESCALATED") = 2 /\ Ten!Rank("BLOCKED") = 3
<1>1. \A i \in 1..3 : /\ Ten!Verdicts[i] = "APPROVED" <=> i = 1
                      /\ Ten!Verdicts[i] = "ESCALATED" <=> i = 2
                      /\ Ten!Verdicts[i] = "BLOCKED" <=> i = 3
  BY DEF Ten!Verdicts
<1>2. 1 \in 1..3 /\ 2 \in 1..3 /\ 3 \in 1..3
  OBVIOUS
<1> HIDE DEF Ten!Verdicts
<1> QED BY <1>1, <1>2, Zenon DEF Ten!Rank

\* What blocks or escalates a request does so to a riskier one.
LEMMA RiskierIsNoMilder ==
  ASSUME RadiiAssumption, NEW a \in Ten!Requests, NEW r \in Ten!Requests,
         a.phronesis => r.phronesis, a.prod => r.prod, ~a.reversible => ~r.reversible,
         r.radius >= a.radius, r.category = a.category, r.allowed => a.allowed
  PROVE  /\ Ten!Blocks(a) => Ten!Blocks(r)
         /\ Ten!Escalates(a) => Ten!Escalates(r) \/ Ten!Blocks(r)
<1>1. a.radius \in Int /\ r.radius \in Int
  BY DEF Ten!Requests, RadiiAssumption
<1>2. /\ a.radius >= 5000 => r.radius >= 5000
      /\ a.radius >= 100 => r.radius >= 100
  BY <1>1
<1>3. ASSUME Ten!Blocks(a) PROVE Ten!Blocks(r)
  <2>1. ASSUME a.category = "sharing", ~a.allowed PROVE Ten!Blocks(r)
    <3>1. r.category = "sharing"
      BY <2>1
    <3>2. ~r.allowed
      BY <2>1
    <3> QED BY <3>1, <3>2 DEF Ten!Blocks
  <2>2. ASSUME a.prod, a.category = "deletion", ~a.reversible PROVE Ten!Blocks(r)
    <3>1. r.category = "deletion" 
      BY <2>2
    <3>2. r.prod /\ ~r.reversible
      BY <2>2
    <3> QED BY <3>1, <3>2 DEF Ten!Blocks
  <2>3. ASSUME a.prod, a.radius >= 5000 PROVE Ten!Blocks(r)
    <3>1. r.prod /\ r.radius >= 5000
      BY <1>2, <2>3
    <3> QED BY <3>1 DEF Ten!Blocks
  <2> QED BY <1>3, <2>1, <2>2, <2>3 DEF Ten!Blocks
<1>4. ASSUME Ten!Escalates(a) PROVE Ten!Escalates(r) \/ Ten!Blocks(r)
  <2>1. ASSUME a.phronesis PROVE Ten!Escalates(r)
    BY <2>1 DEF Ten!Escalates
  <2>2. ASSUME a.category = "sharing", a.allowed PROVE Ten!Escalates(r) \/ Ten!Blocks(r)
    <3>1. r.category = "sharing"
      BY <2>2
    <3> QED BY <3>1 DEF Ten!Blocks, Ten!Escalates
  <2>3. ASSUME a.prod, a.radius >= 100 \/ ~a.reversible PROVE Ten!Escalates(r)
    <3>1. r.prod /\ (r.radius >= 100 \/ ~r.reversible)
      BY <1>2, <2>3
    <3> QED BY <3>1 DEF Ten!Escalates
  <2> QED BY <1>4, <2>1, <2>2, <2>3 DEF Ten!Escalates
<1> QED BY <1>3, <1>4

LEMMA RequestHoldsAlways == ASSUME RequestInv PROVE RequestHolds
<1> SUFFICES ASSUME request # None, NEW r \in Ten!Requests,
                    request.phronesis => r.phronesis, request.prod => r.prod,
                    ~request.reversible => ~r.reversible, r.radius >= request.radius,
                    r.category = request.category, r.allowed => request.allowed
             PROVE  Ten!Rank(Ten!PreActionCheck(r)) >= Ten!Rank(Ten!PreActionCheck(request))
  BY Zenon DEF RequestHolds, Ten!RiskNeverHelps
<1>1. request \in Ten!Requests /\ RadiiAssumption
  BY EngineAssumptionsHold DEF RequestInv
<1>2. /\ Ten!Blocks(request) => Ten!Blocks(r)
      /\ Ten!Escalates(request) => Ten!Escalates(r) \/ Ten!Blocks(r)
  BY <1>1, RiskierIsNoMilder
<1> DEFINE m(x) == IF Ten!Blocks(x) THEN 3 ELSE IF Ten!Escalates(x) THEN 2 ELSE 1
<1>3. \A x : Ten!Rank(Ten!PreActionCheck(x)) = m(x)
  BY RanksOfVerdicts DEF Ten!PreActionCheck
<1>4. m(r) >= m(request)
  BY <1>2
<1> HIDE DEF m
<1> QED BY <1>3, <1>4

-----------------------------------------------------------------------------
(* The decisions of all the classes *)

LEMMA CampaignInvariant == Spec => []CampaignInv
<1>1. Init => CampaignInv
  BY CampaignStart DEF Init
<1>2. CampaignInv /\ [Next]_vars => CampaignInv'
  <2>1. CampaignInv /\ engine' = engine /\ Campaign!Next => CampaignInv'
    BY CampaignStep
  <2>2. CampaignInv /\ engine' = engine /\ UNCHANGED campaignVars => CampaignInv'
    BY CampaignStands
  <2>3. [Next]_vars => engine' = engine /\ (Campaign!Next \/ UNCHANGED campaignVars)
    BY EngineStays DEF Next, vars
  <2> QED BY <2>1, <2>2, <2>3
<1> QED BY <1>1, <1>2, PTL DEF Spec

LEMMA NginxInvariant == Spec => [](NginxInv /\ ParseInv)
<1>1. Init => NginxInv /\ ParseInv
  BY NginxStart DEF Init
<1>2. NginxInv /\ ParseInv /\ [Next]_vars => (NginxInv /\ ParseInv)'
  <2>1. NginxInv /\ ParseInv /\ engine' = engine /\ Nginx!Next => (NginxInv /\ ParseInv)'
    BY NginxStep
  <2>2. NginxInv /\ ParseInv /\ engine' = engine /\ UNCHANGED nginxVars => (NginxInv /\ ParseInv)'
    BY NginxStands
  <2>3. [Next]_vars => engine' = engine /\ (Nginx!Next \/ UNCHANGED nginxVars)
    BY EngineStays DEF Next, vars
  <2> QED BY <2>1, <2>2, <2>3
<1> QED BY <1>1, <1>2, PTL DEF Spec

LEMMA RequestInvariant == Spec => []RequestInv
<1>1. Init => RequestInv
  BY RequestStart DEF Init
<1>2. RequestInv /\ [Next]_vars => RequestInv'
  <2>1. RequestInv /\ engine' = engine /\ Ten!Next => RequestInv'
    BY RequestStep
  <2>2. RequestInv /\ engine' = engine /\ UNCHANGED tenVars => RequestInv'
    BY RequestStands
  <2>3. [Next]_vars => engine' = engine /\ (Ten!Next \/ UNCHANGED tenVars)
    BY EngineStays DEF Next, vars
  <2> QED BY <2>1, <2>2, <2>3
<1> QED BY <1>1, <1>2, PTL DEF Spec

\* All that the classes decide is sound, whatever their callers do and in whatever order
\* their threads come: traffic moves for a cause and to a healthy target of the same hotel,
\* quorums and answers stand, shares and emergency stops are heeded, actions go against the
\* drift, what is protected is spared, records name what was proven, and risk never helps.
THEOREM DecisionsAreSound == Spec => []DecisionsSound
<1>1. CampaignInv => CampaignHolds
  BY CampaignHoldsAlways
<1>2. NginxInv /\ ParseInv => NginxHolds
  BY NginxHoldsAlways
<1>3. RequestInv => RequestHolds
  BY RequestHoldsAlways
<1>4. KeepersDecide /\ CampaignInv /\ NginxInv /\ ParseInv /\ RequestInv => DecisionsSound
  BY <1>1, <1>2, <1>3 DEF KeepersDecide, CampaignHolds, NginxHolds, RequestHolds, DecisionsSound
<1>5. Spec => []KeepersDecide
  BY KeepersAmong, KeepersDecideRight
<1> QED BY <1>4, <1>5, CampaignInvariant, NginxInvariant, RequestInvariant, PTL
=============================================================================
