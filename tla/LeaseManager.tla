---------------------------- MODULE LeaseManager ----------------------------
(***************************************************************************)
(* The SQLite lease table of kmo_lease_manager.py and the with_lease       *)
(* wrapper of kmo_lease_decorator.py, used by several processes.           *)
(*                                                                         *)
(* A process opens an autocommit connection per call, so each statement is *)
(* one atomic step and the steps of different processes interleave.  The   *)
(* RLock of a manager orders only the threads of one process: its main     *)
(* thread (pc) and the heartbeat thread of the call in progress (hb).      *)
(*                                                                         *)
(* Time is kept relative to the present, so that it has no bound: a row    *)
(* stores the time left until expires_at (negative once it has expired),   *)
(* and a thread stores the age of the time.time() value it works with.     *)
(***************************************************************************)
EXTENDS Integers, FiniteSets

CONSTANTS
  Procs,      \* processes, each with a LeaseManager on the same database
  Resources,  \* pairs (resource_type, resource_id)
  Tokens,     \* pool of lease ids; uuid4 draws one that nobody refers to
  None,       \* Python's None
  TTL,        \* ttl_sec
  MaxDelay    \* bound: a thread uses a clock value at most this old

ASSUME TTLAssumption   == TTL \in Nat \ {0}
ASSUME DelayAssumption == MaxDelay \in Nat
ASSUME NoneAssumption  == None \notin Tokens /\ None \notin Resources

VARIABLES
  leases,     \* the table: rows with a token, a resource, a holder, time left
  stopFlags,  \* resources whose STOP-<resource_id>.flag exists
  pc,         \* where the main thread of a process is
  want,       \* the resource its call is about, None for a bare purge
  mine,       \* the token of its current lease, None before and after
  age,        \* age of the `now` its main thread has read
  stale,      \* the ids its force_release_stale has selected
  hb,         \* its heartbeat thread: "off", "sleep", or "beat" (has read now)
  hbTok,      \* the token that thread renews
  hbAge,      \* age of the `now` that thread has read
  lapsed,     \* history: the current lease of a process was expired once
  orphans     \* history: tokens of rows whose process is gone

vars == <<leases, stopFlags, pc, want, mine, age, stale, hb, hbTok, hbAge,
          lapsed, orphans>>
mainVars == <<pc, want, mine, age, stale>>
hbVars   == <<hb, hbTok, hbAge>>

-----------------------------------------------------------------------------
(* Rows, and the three tests of expiry. *)

Row == [tok: Tokens, res: Resources, holder: Procs, left: Int]

TokensOf(T) == {l.tok : l \in T}
RowsOf(T, r) == {l \in T : l.res = r}

\* LeaseInfo.is_expired, and the test of SELECT ... WHERE expires_at < now
\* for a `now` that was read a ticks ago.
ExpiredAt(l, a) == l.left < -a
IsExpired(l) == ExpiredAt(l, 0)

\* is_locked: the live row of a resource, if any.
IsLocked(r) == {l \in RowsOf(leases, r) : ~IsExpired(l)}

\* list_active: expires_at >= now.
ListActive == {l \in leases : l.left >= 0}

\* A uuid4 is a token no row and no thread refers to.
Fresh == Tokens \ (TokensOf(leases) \cup {mine[p] : p \in Procs}
                   \cup {hbTok[p] : p \in Procs} \cup UNION {stale[p] : p \in Procs})

Holding == {"check", "recheck", "held", "release"}

Init ==
  /\ leases = {} /\ stopFlags = {} /\ orphans = {}
  /\ pc = [p \in Procs |-> "idle"]
  /\ want = [p \in Procs |-> None]
  /\ mine = [p \in Procs |-> None]
  /\ age = [p \in Procs |-> 0]
  /\ stale = [p \in Procs |-> {}]
  /\ hb = [p \in Procs |-> "off"]
  /\ hbTok = [p \in Procs |-> None]
  /\ hbAge = [p \in Procs |-> 0]
  /\ lapsed = [p \in Procs |-> FALSE]

Goto(p, l) == pc' = [pc EXCEPT ![p] = l]

\* The call of p returns: its local variables are gone.
Return(p) ==
  /\ Goto(p, "idle")
  /\ want' = [want EXCEPT ![p] = None]
  /\ mine' = [mine EXCEPT ![p] = None]
  /\ age' = [age EXCEPT ![p] = 0]
  /\ stale' = [stale EXCEPT ![p] = {}]
  /\ lapsed' = [lapsed EXCEPT ![p] = FALSE]

-----------------------------------------------------------------------------
(* acquire *)

\* with_lease calls acquire: the STOP flag is looked at once, before the
\* lock.  One heartbeat thread per process: a thread that outlived its join
\* is waited for before the next call.
Begin(p, r) ==
  /\ pc[p] = "idle" /\ hb[p] = "off"
  /\ r \notin stopFlags
  /\ Goto(p, "enter")
  /\ want' = [want EXCEPT ![p] = r]
  /\ UNCHANGED <<leases, stopFlags, mine, age, stale, hbVars, lapsed, orphans>>

\* now = time.time(), in _try_insert and in force_release_stale.
ReadNow(p) ==
  /\ \/ pc[p] = "enter" /\ Goto(p, "insert")
     \/ pc[p] = "stale" /\ Goto(p, "select")
     \/ pc[p] = "retry" /\ Goto(p, "reinsert")
  /\ age' = [age EXCEPT ![p] = 0]
  /\ UNCHANGED <<leases, stopFlags, want, mine, stale, hbVars, lapsed, orphans>>

\* FAULT: an expired row does not count for the UNIQUE index.
CanInsertBesideExpired(r) == \A l \in RowsOf(leases, r) : IsExpired(l)

\* INSERT OR IGNORE finds no row of the resource.
CanInsert(r) == RowsOf(leases, r) = {}

\* INSERT OR IGNORE writes the row.
TryInsert(p) ==
  /\ \/ pc[p] = "insert" /\ Goto(p, "check")
     \/ pc[p] = "reinsert" /\ Goto(p, "recheck")
  /\ CanInsert(want[p])
  /\ \E t \in Fresh :
       /\ leases' = leases \cup
            {[tok |-> t, res |-> want[p], holder |-> p, left |-> TTL - age[p]]}
       /\ mine' = [mine EXCEPT ![p] = t]
  /\ lapsed' = [lapsed EXCEPT ![p] = TTL < age[p]]
  /\ age' = [age EXCEPT ![p] = 0]
  /\ UNCHANGED <<stopFlags, want, stale, hbVars, orphans>>

\* The UNIQUE index makes INSERT OR IGNORE a no-op: the first attempt goes on
\* to force_release_stale, the second makes acquire return None.
InsertConflict(p) ==
  /\ ~CanInsert(want[p])
  /\ \/ /\ pc[p] = "insert" /\ Goto(p, "stale")
        /\ age' = [age EXCEPT ![p] = 0]
        /\ UNCHANGED <<want, mine, stale, lapsed>>
     \/ pc[p] = "reinsert" /\ Return(p)
  /\ UNCHANGED <<leases, stopFlags, hbVars, orphans>>

\* SELECT ... WHERE lease_id = token: acquire returns the token, and
\* with_lease starts the heartbeat thread and calls the wrapped function.
CheckToken(p) ==
  /\ pc[p] \in {"check", "recheck"}
  /\ mine[p] \in TokensOf(leases)
  /\ Goto(p, "held")
  /\ hb' = [hb EXCEPT ![p] = "sleep"]
  /\ hbTok' = [hbTok EXCEPT ![p] = mine[p]]
  /\ UNCHANGED <<leases, stopFlags, want, mine, age, stale, hbAge, lapsed, orphans>>

\* The row that was inserted is already gone again (it was born expired).
CheckMissing(p) ==
  /\ mine[p] \notin TokensOf(leases)
  /\ \/ /\ pc[p] = "check" /\ Goto(p, "stale")
        /\ mine' = [mine EXCEPT ![p] = None]
        /\ UNCHANGED <<want, age, stale, lapsed>>
     \/ pc[p] = "recheck" /\ Return(p)
  /\ UNCHANGED <<leases, stopFlags, hbVars, orphans>>

-----------------------------------------------------------------------------
(* force_release_stale, within acquire or called on its own *)

Purge(p) ==
  /\ pc[p] = "idle"
  /\ Goto(p, "stale")
  /\ UNCHANGED <<leases, stopFlags, want, mine, age, stale, hbVars, lapsed, orphans>>

\* FAULT: expires_at <= now.  FAULT: only the leases of the caller.
StaleIdsInclusive(p) == TokensOf({l \in leases : l.left <= -age[p]})
StaleIdsOfCaller(p) == TokensOf({l \in leases : ExpiredAt(l, age[p]) /\ l.holder = p})

\* SELECT lease_id FROM leases WHERE expires_at < now.
StaleIds(p) == TokensOf({l \in leases : ExpiredAt(l, age[p])})

SelectStale(p) ==
  /\ pc[p] = "select"
  /\ IF StaleIds(p) = {}
       THEN Return(p)
       ELSE /\ stale' = [stale EXCEPT ![p] = StaleIds(p)]
            /\ age' = [age EXCEPT ![p] = 0]
            /\ Goto(p, "delete")
            /\ UNCHANGED <<want, mine, lapsed>>
  /\ UNCHANGED <<leases, stopFlags, hbVars, orphans>>

\* FAULT: the row is deleted by its resource.
SelectedByResource(l, p) == l.tok \in stale[p] \/ l.res = want[p]

\* DELETE ... WHERE lease_id IN (ids): a statement of its own, by id only.
Selected(l, p) == l.tok \in stale[p]

DeleteStale(p) ==
  /\ pc[p] = "delete"
  /\ leases' = {l \in leases : ~Selected(l, p)}
  /\ IF want[p] = None
       THEN Return(p)
       ELSE /\ Goto(p, "retry")
            /\ stale' = [stale EXCEPT ![p] = {}]
            /\ UNCHANGED <<want, mine, age, lapsed>>
  /\ orphans' = orphans \cap TokensOf(leases')
  /\ UNCHANGED <<stopFlags, hbVars>>

-----------------------------------------------------------------------------
(* heartbeat and release *)

\* The interval has passed: the thread reads the clock before it has the lock.
HeartbeatRead(p) ==
  /\ hb[p] = "sleep"
  /\ hb' = [hb EXCEPT ![p] = "beat"]
  /\ hbAge' = [hbAge EXCEPT ![p] = 0]
  /\ UNCHANGED <<leases, stopFlags, mainVars, hbTok, lapsed, orphans>>

HeartbeatOff(p) ==
  /\ hb' = [hb EXCEPT ![p] = "off"]
  /\ hbTok' = [hbTok EXCEPT ![p] = None]
  /\ hbAge' = [hbAge EXCEPT ![p] = 0]

\* FAULT: the parameters of the UPDATE are swapped.
RenewedSwapped(p) ==
  {IF l.tok = hbTok[p] THEN [l EXCEPT !.tok = p, !.holder = hbTok[p]] ELSE l : l \in leases}

\* The table after UPDATE ... SET expires_at WHERE lease_id = token.
Renewed(p) ==
  {IF l.tok = hbTok[p] THEN [l EXCEPT !.left = TTL - hbAge[p]] ELSE l : l \in leases}

\* The thread sleeps again if a row was renewed and its call goes on; it ends
\* when there was no row or stop_event is set.
HeartbeatWrite(p) ==
  /\ hb[p] = "beat"
  /\ leases' = Renewed(p)
  /\ IF hbTok[p] \in TokensOf(leases) /\ pc[p] = "held"
       THEN /\ hb' = [hb EXCEPT ![p] = "sleep"]
            /\ hbAge' = [hbAge EXCEPT ![p] = 0]
            /\ UNCHANGED hbTok
       ELSE HeartbeatOff(p)
  /\ lapsed' = [lapsed EXCEPT ![p] = @ \/ (mine[p] # None /\ TTL < hbAge[p])]
  /\ UNCHANGED <<stopFlags, mainVars, orphans>>

\* heartbeat raises (database locked beyond busy_timeout): the thread dies,
\* the wrapped function does not notice.
HeartbeatError(p) ==
  /\ hb[p] = "beat"
  /\ HeartbeatOff(p)
  /\ UNCHANGED <<leases, stopFlags, mainVars, lapsed, orphans>>

\* The wrapped function returns or raises: stop_event is set, a sleeping
\* thread ends, one in the middle of a heartbeat is joined for 2 s at most.
EndFunc(p) ==
  /\ pc[p] = "held"
  /\ Goto(p, "release")
  /\ IF hb[p] = "sleep" THEN HeartbeatOff(p) ELSE UNCHANGED hbVars
  /\ UNCHANGED <<leases, stopFlags, want, mine, age, stale, lapsed, orphans>>

\* FAULT: an expired lease is left to the purge.
ReleasedIfLive(l, p) == l.tok = mine[p] /\ ~IsExpired(l)

\* release: DELETE ... WHERE lease_id = token.
Released(l, p) == l.tok = mine[p]

Release(p) ==
  /\ pc[p] = "release"
  /\ leases' = {l \in leases : ~Released(l, p)}
  /\ Return(p)
  /\ UNCHANGED <<stopFlags, hbVars, orphans>>

-----------------------------------------------------------------------------
(* The environment *)

\* The process dies, or a sqlite3 error leaves its call; it may call again.
Crash(p) ==
  /\ pc[p] # "idle"
  /\ Return(p)
  /\ HeartbeatOff(p)
  /\ orphans' = orphans \cup ({mine[p]} \cap TokensOf(leases))
  /\ UNCHANGED <<leases, stopFlags>>

RaiseStop(r) ==
  /\ r \notin stopFlags
  /\ stopFlags' = stopFlags \cup {r}
  /\ UNCHANGED <<leases, mainVars, hbVars, lapsed, orphans>>

ClearStop(r) ==
  /\ r \in stopFlags
  /\ stopFlags' = stopFlags \ {r}
  /\ UNCHANGED <<leases, mainVars, hbVars, lapsed, orphans>>

\* Readings in use: the clock value was read and has not been used yet.
Reading(p)   == pc[p] \in {"insert", "reinsert", "select"}
HbReading(p) == hb[p] = "beat"

\* A row that no reading in use can tell from an older one ages no further.
Older(n) == IF n < -MaxDelay THEN n ELSE n - 1

Tick ==
  /\ \A p \in Procs : /\ Reading(p) => age[p] < MaxDelay
                      /\ HbReading(p) => hbAge[p] < MaxDelay
  /\ leases' = {[l EXCEPT !.left = Older(@)] : l \in leases}
  /\ age' = [p \in Procs |-> IF Reading(p) THEN age[p] + 1 ELSE age[p]]
  /\ hbAge' = [p \in Procs |-> IF HbReading(p) THEN hbAge[p] + 1 ELSE hbAge[p]]
  /\ lapsed' = [p \in Procs |-> lapsed[p] \/ \E l \in leases' : l.tok = mine[p] /\ IsExpired(l)]
  /\ UNCHANGED <<stopFlags, pc, want, mine, stale, hb, hbTok, orphans>>

\* The steps that the code takes by itself once a call is made.
Advance(p) ==
  \/ ReadNow(p) \/ TryInsert(p) \/ InsertConflict(p) \/ CheckToken(p)
  \/ CheckMissing(p) \/ SelectStale(p) \/ DeleteStale(p) \/ Release(p)

Next ==
  \/ \E p \in Procs : \/ \E r \in Resources : Begin(p, r)
                      \/ Purge(p) \/ Advance(p)
                      \/ HeartbeatRead(p) \/ HeartbeatWrite(p) \/ HeartbeatError(p)
                      \/ EndFunc(p) \/ Crash(p)
  \/ \E r \in Resources : RaiseStop(r) \/ ClearStop(r)
  \/ Tick

\* A started call proceeds and time passes; when calls are made, when the
\* wrapped function returns and what the operator does is left open.
Fairness == WF_vars(Tick) /\ \A p \in Procs : WF_vars(Advance(p)) /\ WF_vars(HeartbeatWrite(p))

Spec == Init /\ [][Next]_vars
FairSpec == Spec /\ Fairness

-----------------------------------------------------------------------------
(* Properties *)

TypeOK ==
  /\ leases \subseteq Row
  /\ stopFlags \subseteq Resources
  /\ pc \in [Procs -> Holding \cup {"idle", "enter", "insert", "stale", "select",
                                    "delete", "retry", "reinsert"}]
  /\ want \in [Procs -> Resources \cup {None}]
  /\ mine \in [Procs -> Tokens \cup {None}]
  /\ age \in [Procs -> Nat]
  /\ stale \in [Procs -> SUBSET Tokens]
  /\ hb \in [Procs -> {"off", "sleep", "beat"}]
  /\ hbTok \in [Procs -> Tokens \cup {None}]
  /\ hbAge \in [Procs -> Nat]
  /\ lapsed \in [Procs -> BOOLEAN]
  /\ orphans \subseteq Tokens

\* A resource has one row, whoever inserts, purges, renews or dies: the
\* promise of acquire ("only one holder per (resource_type, resource_id)").
OneRowPerResource ==
  \A l, m \in leases : l.res = m.res => l = m

\* A holder whose lease has never been expired still has its row: no purge of
\* another process, however late, and no other release takes it away.
NeverLapsedKeepsRow ==
  \A p \in Procs : pc[p] \in Holding /\ ~lapsed[p] =>
    \E l \in leases : l.tok = mine[p] /\ l.res = want[p]

\* Two wrapped functions run on one resource at a time only if the lease of
\* one of them has expired in the meantime.
ExclusionUnlessLapsed ==
  \A p, q \in Procs :
    p # q /\ pc[p] \in Holding /\ pc[q] \in Holding /\ want[p] = want[q]
      => lapsed[p] \/ lapsed[q]

\* Every row has an owner that will release it, or belongs to a process that
\* is gone: neither a late heartbeat nor a failed acquire leaves a row behind.
NoLeakedRow ==
  \A l \in leases : l.tok \in orphans \/ mine[l.holder] = l.tok

\* A purge takes only rows that are expired when it takes them, as
\* "Deletes all expired leases" says of force_release_stale.
PurgeTakesOnlyExpired ==
  [][\A p \in Procs : DeleteStale(p) => \A l \in leases \ leases' : IsExpired(l)]_vars

\* The holder of a resource is the process of its live row.
HolderOf(r) == IF IsLocked(r) = {} THEN None ELSE (CHOOSE l \in IsLocked(r) : TRUE).holder

Lease == INSTANCE ExclusiveLease WITH
           Holders <- Procs, holder <- [r \in Resources |-> HolderOf(r)]

\* The table implements the exclusive lease: between two holders of a
\* resource there is a moment without one, whatever purges, late heartbeats
\* and slow inserts come in between.
ImplementsLease == Lease!Spec

\* A call ends before its purge is done: its process died or an error left it.
CutShort(p) ==
  /\ pc'[p] = "idle"
  /\ \/ pc[p] \in {"enter", "insert", "stale"}
     \/ pc[p] = "select" /\ StaleIds(p) # {}
     \/ pc[p] = "delete" /\ want[p] # None

\* Once calls are no longer cut short, the row of a dead holder does not
\* outlive repeated calls of acquire on its resource.
OrphanReclaimed ==
  \A r \in Resources :
    /\ <>[][\A p \in Procs : ~CutShort(p)]_vars
    /\ []<>(\E p \in Procs : pc[p] = "enter" /\ want[p] = r)
    => []<>(\A l \in RowsOf(leases, r) : l.tok \notin orphans)
=============================================================================
