---------------------------- MODULE ApprovalGate ----------------------------
(***************************************************************************)
(* approval-gate/: dual approvals, the deploy lock of one resource and the *)
(* hash-chained audit log.  Tokens, the lock and audit_chain are tables of *)
(* one SQLite database; the chain itself is a JSONL file beside it, which  *)
(* pre_deploy_atomic writes after its COMMIT and AuditLog.append at any    *)
(* time.                                                                   *)
(*                                                                         *)
(* All tokens are for the one resource and action and carry the signature, *)
(* signers and requester they were issued with: the checks of those look   *)
(* at nothing that ever changes.  An entry's hash is its id: two entries   *)
(* with the same content and predecessor do not occur.                     *)
(***************************************************************************)
EXTENDS Integers, Sequences, SequencesExt

CONSTANTS
  Procs,
  Duals,       \* dual approvals that may be requested
  None,
  TTL,         \* TOKEN_TTL_SECONDS, of tokens and of locks
  MaxTime,     \* bound: the clock
  MaxAppends   \* bound: calls of AuditLog.append

ASSUME TtlAssumption == TTL \in Nat \ {0} /\ MaxTime \in Nat /\ MaxAppends \in Nat
ASSUME DualsAssumption == IsFiniteSet(Duals)
ASSUME NoneAssumption ==
  /\ None \notin Duals \cup Procs
  /\ None \notin [exp: Nat, used: BOOLEAN, revoked: BOOLEAN] \cup [holder: Procs, exp: Nat]
  /\ None \notin [index: Nat, prev: Duals \cup Nat \cup {None}, id: Duals \cup Nat]

Tokens == Duals \X {"primary", "secondary"}
Times == 0..MaxTime

VARIABLES
  clock,
  token,     \* approvals: token -> None or its row
  lock,      \* deploy_locks: None or the row of the resource
  chain,     \* audit_chain: block index -> None or entry id
  jsonl,     \* lines of the JSONL file; see Torn and Garbled
  cut,       \* its last entry is there without the newline
  pc, now,   \* where a process is, and what it read from the clock
  what,      \* the dual or token its call is about
  entry,     \* the staged entry of pre_deploy_atomic, or append's
  appends,   \* calls of append
  spent,     \* history: how often a token was accepted
  holds      \* history: until when a process was told that it has the lock

db   == <<token, lock, chain>>
file == <<jsonl, cut>>
proc == <<pc, now, what, entry>>
hist == <<spent, holds>>
vars == <<clock, db, file, proc, appends, hist>>

\* An unfinished line, and one that another has run into: neither parses.
Torn == [index |-> -1, prev |-> None, id |-> None]
Garbled == [index |-> -2, prev |-> None, id |-> None]
Indices == 0..(Cardinality(Duals) + MaxAppends)

Init ==
  /\ clock = 0
  /\ token = [t \in Tokens |-> None] /\ lock = None
  /\ chain = [i \in Indices |-> None] /\ jsonl = <<>> /\ cut = FALSE
  /\ pc = [p \in Procs |-> "idle"] /\ now = [p \in Procs |-> 0]
  /\ what = [p \in Procs |-> None] /\ entry = [p \in Procs |-> None]
  /\ appends = 0
  /\ spent = [t \in Tokens |-> 0] /\ holds = [p \in Procs |-> 0]

Begins(p, l, w) ==
  /\ pc[p] = "idle" /\ pc' = [pc EXCEPT ![p] = l]
  /\ what' = [what EXCEPT ![p] = w]

ReadsClock(p) == now' = [now EXCEPT ![p] = clock]

Ends(p) ==
  /\ pc' = [pc EXCEPT ![p] = "idle"] /\ now' = [now EXCEPT ![p] = 0]
  /\ what' = [what EXCEPT ![p] = None] /\ entry' = [entry EXCEPT ![p] = None]

-----------------------------------------------------------------------------
(* Tokens *)

\* request_dual_approval: two rows, and the caller has them when both are in.
RequestDual(d) ==
  /\ token[<<d, "primary">>] = None
  /\ token' = [t \in Tokens |-> IF t[1] = d
                 THEN [exp |-> clock + TTL, used |-> FALSE, revoked |-> FALSE] ELSE token[t]]
  /\ UNCHANGED <<clock, lock, chain, file, proc, appends, hist>>

\* FAULT: revoked_at is not part of the WHERE.
NotUsed(t) == ~token[t].used

Unspent(t) == ~token[t].used /\ ~token[t].revoked

\* FAULT: only expiry and revocation are looked at.
NotRevoked(t, at) == token[t] # None /\ at < token[t].exp /\ ~token[t].revoked

Acceptable(t, at) == token[t] # None /\ at < token[t].exp /\ Unspent(t)

Spend(ts) ==
  /\ token' = [t \in Tokens |-> IF t \in ts THEN [token[t] EXCEPT !.used = TRUE] ELSE token[t]]
  /\ spent' = [t \in Tokens |-> IF t \in ts /\ spent[t] < 2 THEN spent[t] + 1 ELSE spent[t]]

\* verify_token, up to the SELECT: False, or on to the UPDATE.
VerifyRead(p, t) ==
  /\ Acceptable(t, clock)
  /\ Begins(p, "update", t)
  /\ UNCHANGED <<clock, db, file, now, entry, appends, hist>>

\* The UPDATE repeats the conditions, and total_changes tells the loser.
VerifyUpdate(p) ==
  /\ pc[p] = "update" /\ Ends(p)
  /\ IF Unspent(what[p]) THEN Spend({what[p]}) ELSE UNCHANGED <<token, spent>>
  /\ UNCHANGED <<clock, lock, chain, file, appends, holds>>

\* revoke_token also stamps a row that is used already, which no check can tell.
RevokeToken(t) ==
  /\ token[t] # None /\ Unspent(t)
  /\ token' = [token EXCEPT ![t].revoked = TRUE]
  /\ UNCHANGED <<clock, lock, chain, file, proc, appends, hist>>

-----------------------------------------------------------------------------
(* The deploy lock *)

\* DELETE WHERE expires_at <= now, then INSERT: the key is free.
LockFree(at) == lock # None => lock.exp <= at

\* FAULT: the TTL is added to an expiry.
TakeLockTwice(p) ==
  /\ lock' = [holder |-> p, exp |-> now[p] + TTL + TTL]
  /\ holds' = [holds EXCEPT ![p] = now[p] + TTL]

TakeLock(p) ==
  /\ lock' = [holder |-> p, exp |-> now[p] + TTL]
  /\ holds' = [holds EXCEPT ![p] = now[p] + TTL]

LockBegin(p) ==
  /\ Begins(p, "lock", None) /\ ReadsClock(p)
  /\ UNCHANGED <<clock, db, file, entry, appends, hist>>

AcquireDeployLock(p) ==
  /\ pc[p] = "lock" /\ Ends(p)
  /\ IF LockFree(now[p]) THEN TakeLock(p) ELSE UNCHANGED <<lock, holds>>
  /\ UNCHANGED <<clock, token, chain, file, appends, spent>>

\* FAULT: DELETE WHERE resource = ?.
AnyLock(p) == lock # None

HeldBy(p) == lock # None /\ lock.holder = p

ReleaseDeployLock(p) ==
  /\ pc[p] = "idle"
  /\ HeldBy(p) /\ lock' = None
  /\ holds' = [holds EXCEPT ![p] = 0]
  /\ UNCHANGED <<clock, token, chain, file, proc, appends, spent>>

-----------------------------------------------------------------------------
(* The audit log *)

LastEntry == IF jsonl = <<>> \/ Last(jsonl) \in {Torn, Garbled} THEN None ELSE Last(jsonl)

\* The new block, linked to the tail of the file.
NextBlock(id) ==
  IF LastEntry = None THEN [index |-> 0, prev |-> None, id |-> id]
  ELSE [index |-> LastEntry.index + 1, prev |-> LastEntry.id, id |-> id]

NoNewline == cut \/ (jsonl # <<>> /\ Last(jsonl) = Torn)

\* What is written behind a line without a newline becomes part of that line.
Write(e) ==
  /\ jsonl' = IF NoNewline THEN Append(Front(jsonl), Garbled) ELSE Append(jsonl, e)
  /\ cut' = FALSE

\* Nothing, a part of the line or all of it but the newline is in the file.
WriteFails(e) ==
  \/ UNCHANGED file
  \/ NoNewline /\ jsonl' = Append(Front(jsonl), Torn) /\ cut' = FALSE
  \/ ~NoNewline /\ jsonl' = Append(jsonl, Torn) /\ UNCHANGED cut
  \/ ~NoNewline /\ jsonl' = Append(jsonl, e) /\ cut' = TRUE

\* append reads the tail, and writes to the file later; nothing locks it.
AppendRead(p) ==
  /\ appends < MaxAppends /\ appends' = appends + 1
  /\ Begins(p, "append", None) /\ UNCHANGED now
  /\ entry' = [entry EXCEPT ![p] = NextBlock(appends')]
  /\ UNCHANGED <<clock, db, file, hist>>

AppendWrite(p) ==
  /\ pc[p] = "append" /\ Ends(p)
  /\ Write(entry[p]) \/ WriteFails(entry[p])
  /\ UNCHANGED <<clock, db, appends, hist>>

-----------------------------------------------------------------------------
(* pre_deploy_atomic *)

\* The clock is read before BEGIN IMMEDIATE, which may have to wait.
PreDeployBegin(p, d) ==
  /\ token[<<d, "secondary">>] # None
  /\ Begins(p, "transaction", d) /\ ReadsClock(p)
  /\ UNCHANGED <<clock, db, file, entry, appends, hist>>

Both(d) == {<<d, "primary">>, <<d, "secondary">>}

\* FAULT: audit_chain has no primary key.
AnyIndex(e) == TRUE

NewIndex(e) == chain[e.index] = None

\* BEGIN IMMEDIATE to COMMIT, with every check passed.
Commit(p) ==
  /\ pc[p] = "transaction"
  /\ \A t \in Both(what[p]) : Acceptable(t, now[p])
  /\ LockFree(now[p])
  /\ NewIndex(NextBlock(what[p]))
  /\ Spend(Both(what[p])) /\ TakeLock(p)
  /\ entry' = [entry EXCEPT ![p] = NextBlock(what[p])]
  /\ chain' = [chain EXCEPT ![NextBlock(what[p]).index] = what[p]]
  /\ pc' = [pc EXCEPT ![p] = "flush"]
  /\ UNCHANGED <<clock, file, now, what, appends>>

\* flush_entry_to_jsonl, after the COMMIT.
Flush(p) ==
  /\ pc[p] = "flush" /\ Ends(p)
  /\ Write(entry[p])
  /\ UNCHANGED <<clock, db, appends, hist>>

FlushFails(p) ==
  /\ pc[p] = "flush" /\ pc' = [pc EXCEPT ![p] = "except"]
  /\ WriteFails(entry[p])
  /\ UNCHANGED <<clock, db, now, what, entry, appends, hist>>

\* A check fails, or the database or the file does: ROLLBACK, which has nothing
\* to roll back after the COMMIT, and False.
Rollback(p) ==
  /\ pc[p] \in {"transaction", "except"} /\ Ends(p)
  /\ UNCHANGED <<clock, db, file, appends, hist>>

-----------------------------------------------------------------------------
Crash(p) ==
  /\ pc[p] # "idle" /\ Ends(p)
  /\ UNCHANGED <<clock, db, file, appends, hist>>

Tick ==
  /\ clock < MaxTime /\ clock' = clock + 1
  /\ holds' = [p \in Procs |-> IF holds[p] <= clock' THEN 0 ELSE holds[p]]
  /\ UNCHANGED <<db, file, proc, appends, spent>>

Next ==
  \/ \E d \in Duals : RequestDual(d)
  \/ \E t \in Tokens : RevokeToken(t)
  \/ \E p \in Procs :
       \/ \E t \in Tokens : VerifyRead(p, t)
       \/ \E d \in Duals : PreDeployBegin(p, d)
       \/ VerifyUpdate(p) \/ LockBegin(p) \/ AcquireDeployLock(p) \/ ReleaseDeployLock(p)
       \/ AppendRead(p) \/ AppendWrite(p)
       \/ Commit(p) \/ Rollback(p) \/ Flush(p) \/ FlushFails(p) \/ Crash(p)
  \/ Tick

Spec == Init /\ [][Next]_vars

\* Processes and approvals are interchangeable.
Symmetry == Permutations(Procs) \cup Permutations(Duals)

-----------------------------------------------------------------------------
(* Properties *)

TokenRow == [exp: 0..(MaxTime + TTL), used: BOOLEAN, revoked: BOOLEAN]
EntryId == Duals \cup 1..MaxAppends
Block == [index: Indices, prev: EntryId \cup {None}, id: EntryId]

TypeOK ==
  /\ clock \in Times
  /\ token \in [Tokens -> TokenRow \cup {None}]
  /\ lock \in [holder: Procs, exp: 0..(MaxTime + TTL)] \cup {None}
  /\ chain \in [Indices -> Duals \cup {None}]
  /\ jsonl \in Seq(Block \cup {Torn, Garbled}) /\ cut \in BOOLEAN
  /\ pc \in [Procs -> {"idle", "update", "lock", "append", "transaction", "flush", "except"}]
  /\ now \in [Procs -> Times]
  /\ what \in [Procs -> Duals \cup Tokens \cup {None}]
  /\ entry \in [Procs -> Block \cup {None}]
  /\ appends \in 0..MaxAppends
  /\ spent \in [Tokens -> 0..2] /\ holds \in [Procs -> 0..(MaxTime + TTL)]

\* A token is accepted at most once, whether by verify_token or inside
\* pre_deploy_atomic, and however many callers present it at the same time.
SpentOnce == \A t \in Tokens : spent[t] <= 1

\* A token that has been revoked is not accepted any more, not even by a
\* verify_token that had read its row before the revocation.
RevokedStaysRevoked ==
  [][\A t \in Tokens : token[t] # None /\ token[t].revoked => spent'[t] = spent[t]]_vars

\* No two processes believe at the same time that the deploy lock is theirs,
\* whoever is slow, releases late or read the clock before it waited.
DeployExclusion ==
  \A p, q \in Procs : holds[p] > clock /\ holds[q] > clock => p = q

\* verify_chain.
VerifyChain ==
  \A i \in DOMAIN jsonl :
    /\ jsonl[i] \notin {Torn, Garbled}
    /\ jsonl[i].index = i - 1
    /\ jsonl[i].prev = IF i = 1 THEN None ELSE jsonl[i-1].id

\* Nobody else appends, and no write was cut off: the chain in the file then
\* verifies and agrees with audit_chain, although every process links its
\* block to a tail that it reads while others have blocks still to flush.
ChainIntact ==
  appends = 0 /\ Torn \notin ToSet(jsonl) /\ Garbled \notin ToSet(jsonl) =>
    VerifyChain /\ \A i \in DOMAIN jsonl : chain[i-1] = jsonl[i].id

\* A call that is going to return False has left nothing behind: "On any
\* failure: ROLLBACK (no token use, no lock, no audit-line)".
FalseMeansRollback ==
  \A p \in Procs : pc[p] = "except" => \A i \in Indices : chain[i] # what[p]
=============================================================================
