----------------------------- MODULE KeyedLocks -----------------------------
(***************************************************************************)
(* The in-memory lock managers of one process: a dictionary of leases with *)
(* a token and an expiry, every operation under one RLock.                 *)
(*   lock-generic   DistributedLockManager                                 *)
(*   lock-trade     KPMDistributedTradeLockManager (instrument, side)      *)
(*   lock-voting    SAEv8DistributedTrinityLockManager (slot, round)       *)
(*   lock-edit      GraphityDistributedEditLock, a bounded dictionary      *)
(*   lock-project   NineDotsDistributedLock, reentrant for a session       *)
(*   lock-document  LexVanceDistributedLock, with rival clients            *)
(* `engine` says which of them runs; it never changes.                     *)
(*                                                                         *)
(* A thread keeps the token of its last success.  Tokens are uuid4, so it  *)
(* is enough to know whose token a lease carries.  Expiry is the time left,*)
(* negative once it has passed; project and document locks read the clock  *)
(* before they wait for the RLock, so their `now` is some ticks old.       *)
(***************************************************************************)
EXTENDS Integers, FiniteSets

CONSTANTS
  Keys,      \* pairs <<owner, part>>: the dictionary keys of all six
  Threads,   \* client threads
  HolderOf,  \* the strategy, session, lawyer ... a thread acts for
  None,
  TTL,       \* ttl_s
  MaxAge,    \* bound: a clock value read before the RLock is at most this old
  Capacity   \* max_active_leases, max_locks, of each manager

VARIABLES
  engine,    \* which manager runs
  lease,     \* _leases, _locks: [by, left] of a key, or None
  tokens,    \* the keys a thread has a token of
  broken,    \* history: <<thread, key>>: the lease was expired, forced open, or
             \* taken over by a reentrant thread of the same holder
  rivals,    \* _rival_pairs of the document locks
  reported   \* history: lawyers whose conflict declare_rival_mandanten returned

vars == <<lease, tokens, broken, rivals, reported>>

Engines == {"lock-generic", "lock-trade", "lock-voting", "lock-edit",
            "lock-project", "lock-document"}
TokenStyle == {"lock-generic", "lock-trade", "lock-voting", "lock-edit"}

Start ==
  /\ lease = [k \in Keys |-> None]
  /\ tokens = [t \in Threads |-> {}]
  /\ broken = {} /\ rivals = {} /\ reported = {}

Held == {k \in Keys : lease[k] # None}
Holder(k) == HolderOf[lease[k].by]

\* TradeLease, TrinityVotingLease, EditLease, Lease: now > expires_at.
IsExpired(k, a) == lease[k] # None /\ lease[k].left + a < 0

\* _sweep_expired of the project and document locks: expires_at <= now.
IsOver(k, a) == lease[k] # None /\ lease[k].left + a <= 0

\* The test of the manager that runs, on a lease l.
Gone(l) == IF engine \in TokenStyle THEN l.left < 0 ELSE l.left <= 0

Live(k) == lease[k] # None /\ ~Gone(lease[k])

Put(f, t, k, a) == [f EXCEPT ![k] = [by |-> t, left |-> TTL - a]]
Without(S) == [k \in Keys |-> IF k \in S THEN None ELSE lease[k]]

\* The other threads of the holder of t.
Others(t) == {u \in Threads \ {t} : HolderOf[u] = HolderOf[t]}

\* The result of t is a success with a lease: it has a token and starts anew.
Success(t, k, a) ==
  /\ tokens' = [tokens EXCEPT ![t] = @ \cup {k}]
  /\ broken' = (broken \ {<<t, k>>})
       \cup {<<u, k>> : u \in IF engine \in TokenStyle THEN {} ELSE Others(t)}
       \cup {<<u, k>> : u \in IF TTL <= a THEN {t} ELSE {}}

Quiet == UNCHANGED <<rivals, reported>>

-----------------------------------------------------------------------------
(* DistributedLockManager *)

\* FAULT: an existing lease is taken over without the test of expiry.
FreeForAll(k) == TRUE

\* No lease, or one that is_expired and is deleted on the spot.
Free(k) == lease[k] = None \/ IsExpired(k, 0)

Acquire(t, k) ==
  /\ Free(k)
  /\ lease' = Put(lease, t, k, 0)
  /\ Success(t, k, 0) /\ Quiet

\* FAULT: release does not compare the token.
OwnsAny(t, k) == lease[k] # None

\* existing.lease_token = lease_token.
Owns(t, k) == lease[k] # None /\ lease[k].by = t

\* The checks of renew, in the order of the code: a token that is not the one
\* of the lease changes nothing, an expired lease is deleted.
Renew(t, k) ==
  /\ k \in tokens[t] /\ Owns(t, k)
  /\ IF IsExpired(k, 0) THEN lease' = Without({k}) ELSE lease' = Put(lease, t, k, 0)
  /\ UNCHANGED <<tokens, broken>> /\ Quiet

\* release: the caller gives its token away, whether the lease is its own,
\* another one or gone.
Release(t, k) ==
  /\ k \in tokens[t]
  /\ lease' = IF Owns(t, k) THEN Without({k}) ELSE lease
  /\ tokens' = [tokens EXCEPT ![t] = @ \ {k}]
  /\ broken' = broken \ {<<t, k>>} /\ Quiet

\* force_release, the admin override.
ForceRelease(k) ==
  /\ lease[k] # None
  /\ lease' = Without({k})
  /\ broken' = broken \cup {<<lease[k].by, k>>}
  /\ UNCHANGED tokens /\ Quiet

SweepExpired ==
  /\ lease' = Without({k \in Keys : IsExpired(k, 0)})
  /\ UNCHANGED <<tokens, broken>> /\ Quiet

Generic ==
  /\ engine = "lock-generic"
  /\ \/ \E t \in Threads, k \in Keys : Acquire(t, k) \/ Renew(t, k) \/ Release(t, k)
     \/ \E k \in Keys : ForceRelease(k)
     \/ SweepExpired

-----------------------------------------------------------------------------
(* The managers with the same protocol over other keys *)

TradeAcquire(t, i, s) == Acquire(t, <<i, s>>)
TradeRenew(t, i, s)   == Renew(t, <<i, s>>)
TradeRelease(t, i, s) == Release(t, <<i, s>>)
TradeForce(i, s)      == ForceRelease(<<i, s>>)
TradeSweep            == SweepExpired

Trade ==
  /\ engine = "lock-trade"
  /\ \/ \E t \in Threads, k \in Keys :
          TradeAcquire(t, k[1], k[2]) \/ TradeRenew(t, k[1], k[2]) \/ TradeRelease(t, k[1], k[2])
     \/ \E k \in Keys : TradeForce(k[1], k[2])
     \/ TradeSweep

\* The deque of audit entries is read by nobody but tests and is left out.
VotingAcquire(t, s, r) == Acquire(t, <<s, r>>)
VotingRenew(t, s, r)   == Renew(t, <<s, r>>)
VotingRelease(t, s, r) == Release(t, <<s, r>>)
VotingForce(s, r)      == ForceRelease(<<s, r>>)
VotingSweep            == SweepExpired

Voting ==
  /\ engine = "lock-voting"
  /\ \/ \E t \in Threads, k \in Keys :
          VotingAcquire(t, k[1], k[2]) \/ VotingRenew(t, k[1], k[2]) \/ VotingRelease(t, k[1], k[2])
     \/ \E k \in Keys : VotingForce(k[1], k[2])
     \/ VotingSweep

-----------------------------------------------------------------------------
(* GraphityDistributedEditLock: at most max_active_leases *)

\* A new key at the limit: expired leases are swept first; if that frees
\* nothing, RuntimeError (and the sweep has removed nothing).
EditAcquire(t, k) ==
  /\ Free(k)
  /\ LET others == Held \ {k}
         full   == Cardinality(others) >= Capacity[engine]
         swept  == IF full THEN {j \in others : IsExpired(j, 0)} ELSE {}
     IN  IF full /\ swept = {}
           THEN lease' = Without({k}) /\ UNCHANGED <<tokens, broken>>
           ELSE lease' = Put(Without(swept), t, k, 0) /\ Success(t, k, 0)
  /\ Quiet

EditRenew(t, k)   == Renew(t, k)
EditRelease(t, k) == Release(t, k)
EditForce(k)      == ForceRelease(k)
EditSweep         == SweepExpired

Edit ==
  /\ engine = "lock-edit"
  /\ \/ \E t \in Threads, k \in Keys : EditAcquire(t, k) \/ EditRenew(t, k) \/ EditRelease(t, k)
     \/ \E k \in Keys : EditForce(k)
     \/ EditSweep

-----------------------------------------------------------------------------
(* NineDotsDistributedLock and LexVanceDistributedLock *)

\* acquire after its sweep at a clock value a ticks old: the holder's own
\* lease is replaced by one with a new token, another one refuses, a full
\* dictionary refuses.
Reacquire(t, k, a) ==
  LET swept == {j \in Keys : IsOver(j, a)}
      after == Without(swept)
  IN  IF \/ after[k] # None /\ Holder(k) # HolderOf[t]
         \/ after[k] = None /\ Cardinality(Held \ swept) >= Capacity[engine]
        THEN lease' = after /\ UNCHANGED <<tokens, broken>>
        ELSE lease' = Put(after, t, k, a) /\ Success(t, k, a)

ProjectAcquire(t, k, a) == Reacquire(t, k, a) /\ Quiet

\* Idempotent: an unknown key is a success.
ProjectRelease(t, k) == Release(t, k)

\* get_holder and active_locks_count sweep before they answer.
ProjectSweep(a) ==
  /\ lease' = Without({k \in Keys : IsOver(k, a)})
  /\ UNCHANGED <<tokens, broken>> /\ Quiet

Project ==
  /\ engine = "lock-project"
  /\ \/ \E t \in Threads, k \in Keys : \/ \E a \in 0..MaxAge : ProjectAcquire(t, k, a)
                                       \/ ProjectRelease(t, k)
     \/ \E a \in 0..MaxAge : ProjectSweep(a)

\* _has_conflict_of_interest: a lease of the lawyer at a rival of m.
InConflict(held, h, m) ==
  \E k \in held : Holder(k) = h /\ k[1] # m /\ {k[1], m} \in rivals

\* FAULT: the conflict is looked for among the leases on the same document.
InConflictSamePart(t, k, a) == InConflict({j \in Keys : lease[j] # None /\ ~IsOver(j, a) /\ j[2] # k[2]}, HolderOf[t], k[1])

Conflicted(t, k, a) == InConflict({j \in Keys : lease[j] # None /\ ~IsOver(j, a)}, HolderOf[t], k[1])

DocumentAcquire(t, k, a) ==
  /\ IF Conflicted(t, k, a)
       THEN /\ lease' = Without({j \in Keys : IsOver(j, a)})
            /\ UNCHANGED <<tokens, broken>>
       ELSE Reacquire(t, k, a)
  /\ Quiet

DocumentRelease(t, k) == Release(t, k)

DocumentSweep ==
  /\ lease' = Without({k \in Keys : IsOver(k, 0)})
  /\ UNCHANGED <<tokens, broken>> /\ Quiet

\* declare_rival_mandanten: the pair is added, and the lawyers with leases on
\* both sides (expired ones included) are returned.
DeclareRivals(m, n) ==
  /\ m # n
  /\ rivals' = rivals \cup {{m, n}}
  /\ LET At(o) == {Holder(k) : k \in {j \in Held : j[1] = o}}
     IN  reported' = reported \cup (At(m) \cap At(n))
  /\ UNCHANGED <<lease, tokens, broken>>

Document ==
  /\ engine = "lock-document"
  /\ \/ \E t \in Threads, k \in Keys : \/ \E a \in 0..MaxAge : DocumentAcquire(t, k, a)
                                       \/ DocumentRelease(t, k)
     \/ DocumentSweep
     \/ \E j, k \in Keys : DeclareRivals(j[1], k[1])

-----------------------------------------------------------------------------

\* Leases no clock value in use can tell apart age no further.
Tick ==
  /\ engine \in Engines
  /\ lease' = [k \in Keys |-> IF lease[k] = None \/ lease[k].left < 0 THEN lease[k]
                              ELSE [lease[k] EXCEPT !.left = @ - 1]]
  /\ broken' = broken \cup {<<lease[k].by, k>> : k \in {j \in Held : Gone(lease'[j])}}
  /\ UNCHANGED tokens /\ Quiet

Next == Generic \/ Trade \/ Voting \/ Edit \/ Project \/ Document \/ Tick

-----------------------------------------------------------------------------
(* Properties *)

TypeOK ==
  /\ \A k \in Held : lease[k].by \in Threads /\ lease[k].left \in -MaxAge-1..TTL
  /\ tokens \in [Threads -> SUBSET Keys]
  /\ broken \subseteq Threads \X Keys

\* Whoever was granted a key and has neither given it back nor seen it expire
\* or be forced open still has its lease, unless a thread of the same holder
\* took it over: no acquire, sweep or release of another one takes it away.
GrantKept ==
  engine \in Engines =>
    \A t \in Threads : \A k \in tokens[t] :
      <<t, k>> \in broken \/ Owns(t, k)

\* A lawyer has leases with two rival clients only if the declaration of the
\* rivalry returned him.
RivalsReported ==
  \A j, k \in Held : {j[1], k[1]} \in rivals /\ Holder(j) = Holder(k) => Holder(k) \in reported

\* The bounded managers never hold more leases than their limit.
WithinCapacity ==
  engine \in {"lock-edit", "lock-project", "lock-document"} => Cardinality(Held) <= Capacity[engine]

\* Every manager is an exclusive lease on its keys: between two holders of a
\* key there is a moment without one.
Exclusive == INSTANCE ExclusiveLease WITH
  Resources <- Keys,
  Holders   <- {HolderOf[t] : t \in Threads},
  holder    <- [k \in Keys |-> IF Live(k) THEN Holder(k) ELSE None]
=============================================================================
