---------------------------- MODULE TokenBuckets ----------------------------
(***************************************************************************)
(* What a tenant and a cell may use.                                       *)
(*   limiter  RateLimiterPool: a token bucket that refills by wall clock   *)
(*   quota    CellBoundaryManager behind QuotaEnforcer and its             *)
(*            BoundaryAuditLog: budgets that are never given back, a       *)
(*            sliding window of I/O calls, and apoptosis on the first      *)
(*            excess                                                       *)
(* Tenants have a lock each and do not meet: one bucket is enough.         *)
(***************************************************************************)
EXTENDS Integers, FiniteSets, Sequences

CONSTANTS
  Full,      \* capacity + burst_allowance
  Rate,      \* refill_rate, tokens per tick
  MaxTime,   \* bound: the wall clock
  MaxBack,   \* bound: ticks the wall clock is set back altogether
  MaxUse,    \* bound: tokens granted, tokens released
  Workers,   \* threads that charge the cell
  Kinds,     \* "tokens", "cpu", "memory"
  Budget,    \* the quota of each kind
  IoCap,     \* io_calls_per_minute
  IoWindow,  \* DEFAULT_IO_RATE_WINDOW_SEC, in ticks
  None

VARIABLES
  engine,
  tokens,    \* tokens in the bucket
  wall,      \* time.time()
  filled,    \* last_refill
  back,      \* history: ticks the clock was set back
  granted,   \* history: tokens granted
  released,  \* history: tokens released
  consumed,  \* _consumed_tokens, _consumed_cpu, _consumed_memory
  calls,     \* ages of _io_call_timestamps
  apoptosed, \* _is_apoptosed
  fired,     \* history: calls of on_quota_exhausted
  unlogged,  \* what a worker has charged and not yet written to the audit log
  logged,    \* sums over the rows of boundary_events
  purged     \* history: sums over the rows purge_hotel has deleted

bucket == <<tokens, wall, filled, back, granted, released>>
cell   == <<consumed, calls, apoptosed, fired, unlogged, logged, purged>>
vars   == <<bucket, cell>>

Engines == {"limiter", "quota"}

Start ==
  /\ tokens = Full /\ wall = 0 /\ filled = 0 /\ back = 0
  /\ granted = 0 /\ released = 0
  /\ consumed = [k \in Kinds |-> 0] /\ calls = <<>>
  /\ apoptosed = FALSE /\ fired = 0
  /\ unlogged = [w \in Workers |-> None]
  /\ logged = [k \in Kinds |-> 0] /\ purged = [k \in Kinds |-> 0]

-----------------------------------------------------------------------------
(* RateLimiterPool *)

AtMost(n, m) == IF n > m THEN m ELSE n

\* What _refill leaves in the bucket; a clock that went back adds nothing.
Available ==
  AtMost(tokens + Rate * (IF wall > filled THEN wall - filled ELSE 0), Full)

\* FAULT: last_refill moves only when tokens are granted.
RefillUnstamped(n) == tokens' = Available - n /\ filled' = IF n > 0 THEN wall ELSE filled

\* _refill, then n tokens are taken; last_refill follows the clock, also backwards.
Refill(n) == tokens' = Available - n /\ filled' = wall

Acquire(n) ==
  /\ engine = "limiter" /\ granted + n <= MaxUse
  /\ Refill(IF Available >= n THEN n ELSE 0)
  /\ granted' = granted + IF Available >= n THEN n ELSE 0
  /\ UNCHANGED <<wall, back, released, cell>>

\* get_state refills too.
GetState ==
  /\ engine = "limiter"
  /\ Refill(0)
  /\ UNCHANGED <<wall, back, granted, released, cell>>

\* Nothing checks that what is released was ever acquired.
Release(n) ==
  /\ engine = "limiter" /\ released + n <= MaxUse
  /\ tokens' = AtMost(tokens + n, Full)
  /\ released' = released + n
  /\ UNCHANGED <<wall, filled, back, granted, cell>>

WallClock ==
  /\ engine = "limiter"
  /\ \/ wall < MaxTime /\ wall' = wall + 1 /\ UNCHANGED back
     \/ \E d \in 1..AtMost(wall, MaxBack - back) : wall' = wall - d /\ back' = back + d
  /\ UNCHANGED <<tokens, filled, granted, released, cell>>

-----------------------------------------------------------------------------
(* CellBoundaryManager and QuotaEnforcer *)

\* FAULT: the sum is compared before it grows.
OverBefore(k, n) == consumed[k] > Budget[k]

Over(k, n) == consumed[k] + n > Budget[k]

\* _trigger_apoptose, under the manager's lock.
TriggerApoptose ==
  /\ apoptosed' = TRUE
  /\ fired' = IF apoptosed THEN fired ELSE fired + 1

\* consume_tokens, consume_cpu, consume_memory and the start of the charge_ around them.
Consume(w, k, n) ==
  /\ engine = "quota" /\ unlogged[w] = None /\ ~apoptosed
  /\ IF Over(k, n)
       THEN TriggerApoptose /\ UNCHANGED <<consumed, unlogged>>
       ELSE /\ consumed' = [consumed EXCEPT ![k] = @ + n]
            /\ unlogged' = [unlogged EXCEPT ![w] = [kind |-> k, n |-> n]]
            /\ UNCHANGED <<apoptosed, fired>>
  /\ UNCHANGED <<bucket, calls, logged, purged>>

ChargeTokens(w) == \E n \in 1..2 : Consume(w, "tokens", n)
ChargeCpu(w)    == Consume(w, "cpu", 1)
ChargeMemory(w) == Consume(w, "memory", 1)

\* The calls within the window: time stamps are in order, the oldest come first.
Recent == SubSeq(calls, Cardinality({i \in DOMAIN calls : calls[i] > IoWindow}) + 1, Len(calls))

RecordIoCall ==
  /\ engine = "quota" /\ ~apoptosed
  /\ IF Len(Recent) + 1 > IoCap
       THEN calls' = Recent /\ TriggerApoptose
       ELSE calls' = Append(Recent, 0) /\ UNCHANGED <<apoptosed, fired>>
  /\ UNCHANGED <<bucket, consumed, unlogged, logged, purged>>

IoTick ==
  /\ engine = "quota"
  /\ calls' = [i \in DOMAIN calls |-> AtMost(calls[i] + 1, IoWindow + 1)]
  /\ UNCHANGED <<bucket, consumed, apoptosed, fired, unlogged, logged, purged>>

\* FAULT: a cell that has died is not written about any more.
LogAlive(w) ==
  /\ logged' = IF apoptosed THEN logged
               ELSE [logged EXCEPT ![unlogged[w].kind] = @ + unlogged[w].n]
  /\ unlogged' = [unlogged EXCEPT ![w] = None]

\* _log: after the manager's lock is gone, so after another worker's apoptosis perhaps.
Log(w) ==
  /\ logged' = [logged EXCEPT ![unlogged[w].kind] = @ + unlogged[w].n]
  /\ unlogged' = [unlogged EXCEPT ![w] = None]

AppendEvent(w) ==
  /\ engine = "quota" /\ unlogged[w] # None
  /\ Log(w)
  /\ UNCHANGED <<bucket, consumed, calls, apoptosed, fired, purged>>

\* purge_hotel: every row of the hotel, while charges are in flight.
PurgeHotel ==
  /\ engine = "quota"
  /\ purged' = [k \in Kinds |-> purged[k] + logged[k]]
  /\ logged' = [k \in Kinds |-> 0]
  /\ UNCHANGED <<bucket, consumed, calls, apoptosed, fired, unlogged>>

Next ==
  \/ GetState \/ WallClock \/ (\E n \in 1..2 : Acquire(n) \/ Release(n))
  \/ \E w \in Workers : ChargeTokens(w) \/ ChargeCpu(w) \/ ChargeMemory(w) \/ AppendEvent(w)
  \/ RecordIoCall \/ IoTick \/ PurgeHotel

-----------------------------------------------------------------------------
(* Properties *)

\* What was granted is paid for by the full bucket, the time that passed and what
\* came back.  A clock that is set back by d gives Rate * d tokens too many, no more.
PaidFor == granted + tokens <= Full + Rate * (wall + back) + released

\* No sum exceeds its budget, no window its number of calls, and the owner is told
\* once, when the cell dies.
QuotaKept ==
  /\ \A k \in Kinds : consumed[k] <= Budget[k]
  /\ Cardinality({i \in DOMAIN calls : calls[i] <= IoWindow}) <= IoCap
  /\ fired = IF apoptosed THEN 1 ELSE 0

InFlight(k) ==
  {w \in Workers : unlogged[w] # None /\ unlogged[w].kind = k}

\* The audit log adds up to what the cell consumed, but for what is in flight: no
\* charge is missing because the cell died between the charge and its row.
AuditAddsUp ==
  \A k \in Kinds :
    /\ consumed[k] >= logged[k] + purged[k]
    /\ InFlight(k) = {} => consumed[k] = logged[k] + purged[k]
=============================================================================
