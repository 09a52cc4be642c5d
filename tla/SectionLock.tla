---------------------------- MODULE SectionLock ----------------------------
(***************************************************************************)
(* The SQLite lock of one manuscript section (synaptic_lock_core.py behind *)
(* graphity_lock_manager.py) with its refractory period, and the replay    *)
(* guard beside it (graphity_replay_guard.py).  Several processes, each    *)
(* statement sequence up to a commit is one step; what was read before the *)
(* transaction (the clock, the refractory check, the row that is forced    *)
(* open, the stored anchor) may be outdated when it is used.               *)
(*                                                                         *)
(* A token names its row by a random nonce, so a row is known by the       *)
(* process that has its token.  HMAC signatures and their check are left   *)
(* out: the processes use the tokens they were given.                      *)
(***************************************************************************)
EXTENDS Integers

CONSTANTS
  Procs, None,
  TTL,         \* ttl_seconds of acquire_lock and of mark_used
  Refractory,  \* REFRACTORY_PERIOD_SECONDS
  MaxAge,      \* bound: age of a clock value in use
  MaxBlock     \* bound: blocks of the audited chain

VARIABLES
  engine,      \* "section" or "replay"
  row,         \* the resource_locks row: [by, left], or None
  calm,        \* time since the last released_at of lock_history (capped)
  pc,          \* of each process: "idle", "now", "clear", "force", "anchor"
  age,         \* age of the clock value it works with
  token,       \* processes that hold the token of a grant
  broken,      \* history: their row has expired or was forced open
  late,        \* history: a release after this process' refractory check
  nonce,       \* the used_nonces row of one nonce: time left, or None
  chain,       \* blocks of the chain the anchor vouches for
  anchor,      \* last_block_index of chain_anchors, or None
  picked       \* the block index a process is about to anchor

lockVars   == <<row, calm, token, broken, late>>
replayVars == <<nonce, chain, anchor, picked>>
vars == <<row, calm, pc, age, token, broken, late, nonce, chain, anchor, picked>>
Engines == {"section", "replay"}

Long == Refractory + MaxAge

Start ==
  /\ row = None /\ calm = Long /\ token = {} /\ broken = {} /\ late = {}
  /\ pc = [p \in Procs |-> "idle"]
  /\ age = [p \in Procs |-> 0]
  /\ nonce = None /\ chain = 0 /\ anchor = None
  /\ picked = [p \in Procs |-> None]

Goto(p, l) == pc' = [pc EXCEPT ![p] = l]
Idle(p) == Goto(p, "idle") /\ age' = [age EXCEPT ![p] = 0]
Live == row # None /\ row.left > 0

-----------------------------------------------------------------------------
(* synaptic_lock_core and graphity_lock_manager *)

\* acquire_lock reads the clock, then calls acquire_core.
Ask(p) ==
  /\ pc[p] = "idle" /\ p \notin token
  /\ Goto(p, "now")
  /\ UNCHANGED <<lockVars, replayVars, age>>

\* FAULT: the history is not asked.
NeverRefractory(p) == FALSE

\* is_in_refractory at the clock value of p.
InRefractory(p) == calm - age[p] < Refractory

\* Within the period acquire_core raises RuntimeError.
CheckRefractory(p) ==
  /\ pc[p] = "now"
  /\ IF InRefractory(p) THEN Idle(p) ELSE Goto(p, "clear") /\ UNCHANGED age
  /\ late' = late \ {p}
  /\ UNCHANGED <<row, calm, token, broken, replayVars>>

\* FAULT: every row of the section is purged, not only expired ones.
PurgesAll(p) == row # None

\* DELETE ... WHERE expires_at <= now takes the row away.
Purges(p) == row # None /\ row.left + age[p] <= 0

\* DELETE and INSERT commit together; on IntegrityError nothing is committed.
InsertRow(p) ==
  /\ pc[p] = "clear"
  /\ IF row = None \/ Purges(p)
       THEN /\ row' = [by |-> p, left |-> TTL - age[p]]
            /\ token' = token \cup {p}
            /\ broken' = IF TTL <= age[p] THEN broken \cup {p} ELSE broken \ {p}
       ELSE UNCHANGED <<row, token, broken>>
  /\ Idle(p)
  /\ UNCHANGED <<calm, late, replayVars>>

\* lock_history gets a released_at that is a ticks old.
Record(a) ==
  /\ calm' = IF calm < a THEN calm ELSE a
  /\ late' = {q \in Procs : pc[q] = "clear"} \cup late

\* release_core: DELETE by nonce; only if a row went, a history row follows.
Release(p, a) ==
  /\ p \in token /\ pc[p] = "idle"
  /\ token' = token \ {p} /\ broken' = broken \ {p}
  /\ IF row # None /\ row.by = p
       THEN row' = None /\ Record(a)
       ELSE UNCHANGED <<row, calm, late>>
  /\ UNCHANGED <<pc, age, replayVars>>

\* verify_core: the row carries the nonce of the token and has not expired.
Verified(p) == p \in token /\ Live /\ row.by = p

\* force_release: the row is selected ...
ForceSelect(p) ==
  /\ pc[p] = "idle" /\ row # None
  /\ Goto(p, "force")
  /\ UNCHANGED <<lockVars, replayVars, age>>

\* ... and the section's row is deleted by its key, whichever it is by then.
ForceDelete(p) ==
  /\ pc[p] = "force"
  /\ row' = None
  /\ broken' = IF row = None THEN broken ELSE broken \cup {row.by}
  /\ Record(age[p]) /\ Idle(p)
  /\ UNCHANGED <<token, replayVars>>

\* get_lock_status purges before it reads.
Status(a) ==
  /\ row # None /\ row.left + a <= 0
  /\ row' = None
  /\ UNCHANGED <<calm, pc, age, token, broken, late, replayVars>>

Section ==
  /\ engine = "section"
  /\ \/ \E p \in Procs : \/ Ask(p) \/ CheckRefractory(p) \/ InsertRow(p)
                         \/ ForceSelect(p) \/ ForceDelete(p)
                         \/ \E a \in 0..MaxAge : Release(p, a)
     \/ \E a \in 0..MaxAge : Status(a)

-----------------------------------------------------------------------------
(* graphity_replay_guard *)

\* mark_used: INSERT; the primary key refuses a nonce whose row is there, an
\* expired one included.
MarkUsed(p) ==
  /\ nonce = None
  /\ nonce' = TTL
  /\ UNCHANGED <<lockVars, pc, age, chain, anchor, picked>>

\* is_used purges expired nonces first.
IsUsed ==
  /\ nonce # None /\ nonce <= 0
  /\ nonce' = None
  /\ UNCHANGED <<lockVars, pc, age, chain, anchor, picked>>

\* A block is appended to the audited chain.
Append ==
  /\ chain < MaxBlock
  /\ chain' = chain + 1
  /\ UNCHANGED <<lockVars, pc, age, nonce, anchor, picked>>

\* update_chain_anchor reads the stored index and refuses a lower one ...
AnchorRead(p, i) ==
  /\ pc[p] = "idle"
  /\ anchor # None => anchor <= i
  /\ Goto(p, "anchor")
  /\ picked' = [picked EXCEPT ![p] = i]
  /\ UNCHANGED <<lockVars, age, nonce, chain, anchor>>

\* ... and replaces the row in a statement of its own.
AnchorWrite(p) ==
  /\ pc[p] = "anchor"
  /\ anchor' = picked[p]
  /\ picked' = [picked EXCEPT ![p] = None]
  /\ Idle(p)
  /\ UNCHANGED <<lockVars, nonce, chain>>

\* FAULT: a chain longer than its anchor is refused too.
VerifyExact(i) == anchor = None \/ i = anchor

\* verify_chain_against_anchor of a chain that ends with block i.  Blocks are
\* hashed from what precedes them, so equal indices have equal hashes here.
VerifyAgainstAnchor(i) == anchor = None \/ i >= anchor

Replay ==
  /\ engine = "replay"
  /\ \/ \E p \in Procs : MarkUsed(p) \/ AnchorWrite(p) \/ \E i \in 0..chain : AnchorRead(p, i)
     \/ IsUsed \/ Append

-----------------------------------------------------------------------------

InUse(p) == pc[p] \in {"now", "clear", "force"}
Down(n) == IF n < 0 THEN n ELSE n - 1

Tick ==
  /\ engine \in Engines
  /\ \A p \in Procs : InUse(p) => age[p] < MaxAge
  /\ age' = [p \in Procs |-> IF InUse(p) THEN age[p] + 1 ELSE age[p]]
  /\ row' = IF row = None THEN row ELSE [row EXCEPT !.left = Down(@)]
  /\ broken' = IF row # None /\ row'.left <= 0 THEN broken \cup {row.by} ELSE broken
  /\ calm' = IF calm < Long THEN calm + 1 ELSE calm
  /\ nonce' = IF nonce = None THEN None ELSE Down(nonce)
  /\ UNCHANGED <<pc, token, late, chain, anchor, picked>>

Next == Section \/ Replay \/ Tick

-----------------------------------------------------------------------------
(* Properties *)

\* A token verifies until its row expires, is forced open or is released by
\* its owner, whatever acquire, release and status do for others.
TokenKept == \A p \in token \ broken : Verified(p)

\* A section is granted within the refractory period of a release only if
\* that release came after the check of the process that is granted.
CalmBeforeGrant ==
  [][\A p \in Procs : p \notin token /\ p \in token' => p \in late \/ calm - age[p] >= Refractory]_vars

\* A chain that was only appended to is never reported as truncated, however
\* the anchors of several processes overtake each other.
NoFalseAlarm == \A p \in Procs : VerifyAgainstAnchor(chain)

\* Each section is an exclusive lease.
Exclusive == INSTANCE ExclusiveLease WITH
  Resources <- {"section"},
  Holders   <- Procs,
  holder    <- [s \in {"section"} |-> IF Live THEN row.by ELSE None]
=============================================================================
