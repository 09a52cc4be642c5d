-------------------------- MODULE ApprovalGate_proofs --------------------------
(***************************************************************************)
(* Tokens are accepted once, never after their revocation, the deploy lock *)
(* has one believer, and a chain that nobody else extends stays intact,    *)
(* for any number of processes, approvals and appends and every TTL.       *)
(***************************************************************************)
EXTENDS ApprovalGate, FiniteSetTheorems, SequenceTheorems, TLAPS

-----------------------------------------------------------------------------
(* Tokens *)

Places == {"idle", "update", "lock", "append", "transaction", "flush", "except"}

TokensTyped ==
  /\ clock \in Times
  /\ token \in [Tokens -> TokenRow \cup {None}]
  /\ spent \in [Tokens -> 0..2]
  /\ pc \in [Procs -> Places]
  /\ what \in [Procs -> Duals \cup Tokens \cup {None}]

\* A row whose token was accepted carries used_at.
AcceptedIsUsed ==
  \A t \in Tokens : /\ spent[t] <= 1
                    /\ spent[t] = 1 => token[t] # None /\ token[t].used

\* The two rows of a dual approval are inserted together.
Paired ==
  \A d \in Duals : token[<<d, "primary">>] = None <=> token[<<d, "secondary">>] = None

\* A verify_token between SELECT and UPDATE is about a row that is there.
UpdatesARow ==
  \A p \in Procs : pc[p] = "update" => what[p] \in Tokens /\ token[what[p]] # None

TransactsADual == \A p \in Procs : pc[p] = "transaction" => what[p] \in Duals

TokensInv == TokensTyped /\ AcceptedIsUsed /\ Paired /\ UpdatesARow /\ TransactsADual

LEMMA TokensInit == Init => TokensInv
<1> SUFFICES ASSUME Init PROVE TokensInv
  OBVIOUS
<1>1. TokensTyped
  BY TtlAssumption DEF Init, TokensTyped, Times, Places
<1>2. AcceptedIsUsed
  BY DEF Init, AcceptedIsUsed
<1>3. Paired
  BY DEF Init, Paired, Tokens
<1>4. UpdatesARow /\ TransactsADual
  BY DEF Init, UpdatesARow, TransactsADual
<1> QED BY <1>1, <1>2, <1>3, <1>4 DEF TokensInv

LEMMA NoneIsNoRow == \A row \in TokenRow : row # None
<1>1. TokenRow \subseteq [exp: Nat, used: BOOLEAN, revoked: BOOLEAN]
  BY TtlAssumption DEF TokenRow
<1>2. None \notin [exp: Nat, used: BOOLEAN, revoked: BOOLEAN]
  BY NoneAssumption
<1> QED BY <1>1, <1>2

\* Spending unspent rows keeps the bookkeeping right, whatever the caller does
\* with its own program counter.
LEMMA SpendKeeps ==
  ASSUME TokensInv, NEW ts \in SUBSET Tokens, Spend(ts),
         \A t \in ts : token[t] # None /\ ~token[t].used
  PROVE  /\ token' \in [Tokens -> TokenRow \cup {None}]
         /\ spent' \in [Tokens -> 0..2]
         /\ AcceptedIsUsed'
         /\ \A t \in Tokens : token'[t] = None <=> token[t] = None
<1> DEFINE Used(t) == [token[t] EXCEPT !.used = TRUE]
<1>1. \A t \in ts : token[t] \in TokenRow /\ spent[t] = 0
  BY DEF TokensInv, TokensTyped, AcceptedIsUsed
<1>2. \A t \in ts : Used(t) \in TokenRow /\ Used(t).used
  BY <1>1 DEF TokenRow
<1>3. \A t \in ts : Used(t) # None
  BY <1>2, NoneIsNoRow
<1>4. token' = [t \in Tokens |-> IF t \in ts THEN Used(t) ELSE token[t]]
  BY DEF Spend
<1>5. spent' = [t \in Tokens |-> IF t \in ts /\ spent[t] < 2 THEN spent[t] + 1 ELSE spent[t]]
  BY DEF Spend
<1>6. \A t \in ts : token'[t] = Used(t) /\ spent'[t] = 1
  BY <1>1, <1>4, <1>5
<1>7. \A t \in Tokens \ ts : token'[t] = token[t] /\ spent'[t] = spent[t]
  BY <1>4, <1>5
<1> HIDE DEF Used
<1>8. token' \in [Tokens -> TokenRow \cup {None}]
  BY <1>2, <1>4 DEF TokensInv, TokensTyped
<1>9. spent' \in [Tokens -> 0..2]
  BY <1>5, <1>6, <1>7 DEF TokensInv, TokensTyped
<1>10. AcceptedIsUsed'
  <2> SUFFICES ASSUME NEW t \in Tokens
               PROVE  spent'[t] <= 1 /\ (spent'[t] = 1 => token'[t] # None /\ token'[t].used)
    BY DEF AcceptedIsUsed
  <2> QED BY <1>2, <1>3, <1>6, <1>7 DEF TokensInv, AcceptedIsUsed
<1>11. \A t \in Tokens : token'[t] = None <=> token[t] = None
  BY <1>3, <1>6, <1>7
<1> QED BY <1>8, <1>9, <1>10, <1>11

\* A step that leaves the tokens alone, and is not about to spend one.
LEMMA TokensUntouched ==
  ASSUME TokensInv, UNCHANGED <<token, spent>>, clock' \in Times,
         pc' \in [Procs -> Places], what' \in [Procs -> Duals \cup Tokens \cup {None}],
         \A p \in Procs : /\ pc'[p] = "update" => pc[p] = "update" /\ what'[p] = what[p]
                          /\ pc'[p] = "transaction" => what'[p] \in Duals
  PROVE  TokensInv'
BY DEF TokensInv, TokensTyped, AcceptedIsUsed, Paired, UpdatesARow, TransactsADual

LEMMA BeginsTyped ==
  ASSUME TokensTyped, NEW p \in Procs, NEW l \in Places,
         NEW w \in Duals \cup Tokens \cup {None}, Begins(p, l, w)
  PROVE  /\ pc' \in [Procs -> Places] /\ what' \in [Procs -> Duals \cup Tokens \cup {None}]
         /\ \A q \in Procs \ {p} : pc'[q] = pc[q] /\ what'[q] = what[q]
         /\ pc'[p] = l /\ what'[p] = w
BY DEF TokensTyped, Begins

LEMMA EndsTyped ==
  ASSUME TokensTyped, NEW p \in Procs, Ends(p)
  PROVE  /\ pc' \in [Procs -> Places] /\ what' \in [Procs -> Duals \cup Tokens \cup {None}]
         /\ \A q \in Procs \ {p} : pc'[q] = pc[q] /\ what'[q] = what[q]
         /\ pc'[p] = "idle"
BY DEF TokensTyped, Ends, Places

\* request_dual_approval: fresh rows, of tokens nobody can have presented.
LEMMA RequestKeeps ==
  ASSUME TokensInv, NEW d \in Duals, RequestDual(d)
  PROVE  TokensInv'
<1> DEFINE row == [exp |-> clock + TTL, used |-> FALSE, revoked |-> FALSE]
<1>1. row \in TokenRow
  BY TtlAssumption DEF TokenRow, TokensInv, TokensTyped, Times
<1>2. row # None
  BY <1>1, NoneIsNoRow
<1>3. token' = [t \in Tokens |-> IF t[1] = d THEN row ELSE token[t]]
  BY DEF RequestDual
<1>4. UNCHANGED <<clock, pc, what, spent>>
  BY DEF RequestDual, proc, hist
<1> HIDE DEF row
<1>5. \A t \in Tokens : t[1] = d => token[t] = None
  <2> SUFFICES ASSUME NEW t \in Tokens, t[1] = d PROVE token[t] = None
    OBVIOUS
  <2>1. t = <<d, "primary">> \/ t = <<d, "secondary">>
    BY DEF Tokens
  <2> QED BY <2>1 DEF RequestDual, TokensInv, Paired
<1>6. TokensTyped'
  BY <1>1, <1>3, <1>4 DEF TokensInv, TokensTyped
<1>7. AcceptedIsUsed'
  <2> SUFFICES ASSUME NEW t \in Tokens
               PROVE  spent[t] <= 1 /\ (spent[t] = 1 => token'[t] # None /\ token'[t].used)
    BY <1>4 DEF AcceptedIsUsed
  <2> QED BY <1>3, <1>5 DEF TokensInv, AcceptedIsUsed
<1>8. Paired'
  <2> SUFFICES ASSUME NEW e \in Duals
               PROVE  token'[<<e, "primary">>] = None <=> token'[<<e, "secondary">>] = None
    BY DEF Paired
  <2>1. <<e, "primary">> \in Tokens /\ <<e, "secondary">> \in Tokens
    BY DEF Tokens
  <2> QED BY <2>1, <1>3 DEF TokensInv, Paired
<1>9. UpdatesARow'
  <2> SUFFICES ASSUME NEW p \in Procs, pc[p] = "update"
               PROVE  what[p] \in Tokens /\ token'[what[p]] # None
    BY <1>4 DEF UpdatesARow
  <2> QED BY <1>2, <1>3 DEF TokensInv, UpdatesARow
<1>10. TransactsADual'
  BY <1>4 DEF TokensInv, TransactsADual
<1> QED BY <1>6, <1>7, <1>8, <1>9, <1>10 DEF TokensInv

LEMMA RevokeKeeps ==
  ASSUME TokensInv, NEW t \in Tokens, RevokeToken(t)
  PROVE  TokensInv'
<1> DEFINE row == [token[t] EXCEPT !.revoked = TRUE]
<1>1. token[t] \in TokenRow
  BY DEF RevokeToken, TokensInv, TokensTyped
<1>2. row \in TokenRow /\ row.used = token[t].used
  BY <1>1 DEF TokenRow
<1>3. row # None
  BY <1>2, NoneIsNoRow
<1>4. token' = [token EXCEPT ![t] = row]
  BY DEF RevokeToken
<1>5. UNCHANGED <<clock, pc, what, spent>>
  BY DEF RevokeToken, proc, hist
<1>6. token[t] # None
  BY DEF RevokeToken
<1> HIDE DEF row
<1>7. TokensTyped'
  BY <1>2, <1>4, <1>5 DEF TokensInv, TokensTyped
<1>8. token'[t] = row /\ \A u \in Tokens \ {t} : token'[u] = token[u]
  BY <1>4 DEF TokensInv, TokensTyped
<1>9. AcceptedIsUsed'
  BY <1>2, <1>3, <1>5, <1>8 DEF TokensInv, AcceptedIsUsed
<1>10. \A u \in Tokens : token'[u] = None <=> token[u] = None
  BY <1>3, <1>6, <1>8
<1>11. Paired'
  BY <1>10 DEF TokensInv, Paired, Tokens
<1>12. UpdatesARow' /\ TransactsADual'
  BY <1>5, <1>10 DEF TokensInv, UpdatesARow, TransactsADual
<1> QED BY <1>7, <1>9, <1>11, <1>12 DEF TokensInv

LEMMA UpdateKeeps ==
  ASSUME TokensInv, NEW p \in Procs, VerifyUpdate(p)
  PROVE  TokensInv'
<1>1. what[p] \in Tokens /\ token[what[p]] # None /\ clock' = clock
  BY DEF VerifyUpdate, TokensInv, UpdatesARow
<1>2. Ends(p) /\ TokensTyped
  BY DEF VerifyUpdate, TokensInv
<1>3. CASE Unspent(what[p])
  <2>1. Spend({what[p]}) /\ ~token[what[p]].used
    BY <1>3 DEF VerifyUpdate, Unspent
  <2>2. /\ token' \in [Tokens -> TokenRow \cup {None}] /\ spent' \in [Tokens -> 0..2]
        /\ AcceptedIsUsed' /\ \A t \in Tokens : token'[t] = None <=> token[t] = None
    BY <1>1, <2>1, SpendKeeps
  <2>3. Paired'
    BY <2>2 DEF TokensInv, Paired, Tokens
  <2>4. UpdatesARow' /\ TransactsADual'
    BY <1>2, <2>2, EndsTyped DEF TokensInv, UpdatesARow, TransactsADual
  <2>5. TokensTyped'
    BY <1>1, <1>2, <2>2, EndsTyped DEF TokensTyped
  <2> QED BY <2>2, <2>3, <2>4, <2>5 DEF TokensInv
<1>4. CASE ~Unspent(what[p])
  <2>1. UNCHANGED <<token, spent>>
    BY <1>4 DEF VerifyUpdate
  <2> QED BY <1>1, <1>2, <2>1, EndsTyped, TokensUntouched
             DEF TokensInv, TokensTyped, TransactsADual
<1> QED BY <1>3, <1>4

LEMMA CommitKeeps ==
  ASSUME TokensInv, NEW p \in Procs, Commit(p)
  PROVE  TokensInv'
<1>1. what[p] \in Duals
  BY DEF Commit, TokensInv, TransactsADual
<1>2. Both(what[p]) \in SUBSET Tokens
  BY <1>1 DEF Both, Tokens
<1>3. \A t \in Both(what[p]) : token[t] # None /\ ~token[t].used
  BY DEF Commit, Acceptable, Unspent
<1>4. Spend(Both(what[p])) /\ pc' = [pc EXCEPT ![p] = "flush"] /\ UNCHANGED <<clock, what>>
  BY DEF Commit
<1>5. /\ token' \in [Tokens -> TokenRow \cup {None}] /\ spent' \in [Tokens -> 0..2]
      /\ AcceptedIsUsed' /\ \A t \in Tokens : token'[t] = None <=> token[t] = None
  BY <1>2, <1>3, <1>4, SpendKeeps
<1>6. TokensTyped'
  BY <1>4, <1>5 DEF TokensInv, TokensTyped, Places
<1>7. Paired'
  BY <1>5 DEF TokensInv, Paired, Tokens
<1>8. UpdatesARow' /\ TransactsADual'
  BY <1>4, <1>5 DEF TokensInv, TokensTyped, UpdatesARow, TransactsADual
<1> QED BY <1>5, <1>6, <1>7, <1>8 DEF TokensInv

LEMMA TokensNext == TokensInv /\ [Next]_vars => TokensInv'
<1> SUFFICES ASSUME TokensInv, [Next]_vars PROVE TokensInv'
  OBVIOUS
<1>typed. TokensTyped /\ clock \in Times
  BY DEF TokensInv, TokensTyped
<1>1. ASSUME NEW d \in Duals, RequestDual(d) PROVE TokensInv'
  BY <1>1, RequestKeeps
<1>2. ASSUME NEW t \in Tokens, RevokeToken(t) PROVE TokensInv'
  BY <1>2, RevokeKeeps
<1>3. ASSUME NEW p \in Procs, NEW t \in Tokens, VerifyRead(p, t) PROVE TokensInv'
  <2>1. token[t] # None /\ UNCHANGED <<clock, token, spent>> /\ Begins(p, "update", t)
    BY <1>3 DEF VerifyRead, Acceptable, db, hist
  <2>2. t \in Duals \cup Tokens \cup {None}
    OBVIOUS
  <2>3. /\ pc' \in [Procs -> Places] /\ what' \in [Procs -> Duals \cup Tokens \cup {None}]
        /\ \A q \in Procs \ {p} : pc'[q] = pc[q] /\ what'[q] = what[q]
        /\ pc'[p] = "update" /\ what'[p] = t
    BY <1>typed, <2>1, <2>2, BeginsTyped DEF Places
  <2>4. TokensTyped' /\ AcceptedIsUsed' /\ Paired'
    BY <2>1, <2>3 DEF TokensInv, TokensTyped, AcceptedIsUsed, Paired
  <2>5. UpdatesARow' /\ TransactsADual'
    BY <2>1, <2>3 DEF TokensInv, UpdatesARow, TransactsADual
  <2> QED BY <2>4, <2>5 DEF TokensInv
<1>4. ASSUME NEW p \in Procs, NEW d \in Duals, PreDeployBegin(p, d) PROVE TokensInv'
  <2>1. UNCHANGED <<clock, token, spent>> /\ Begins(p, "transaction", d)
    BY <1>4 DEF PreDeployBegin, db, hist
  <2>2. /\ pc' \in [Procs -> Places] /\ what' \in [Procs -> Duals \cup Tokens \cup {None}]
        /\ \A q \in Procs \ {p} : pc'[q] = pc[q] /\ what'[q] = what[q]
        /\ pc'[p] = "transaction" /\ what'[p] = d
    BY <1>typed, <2>1, BeginsTyped DEF Places
  <2> QED BY <1>typed, <2>1, <2>2, TokensUntouched DEF TokensInv, TransactsADual
<1>5. ASSUME NEW p \in Procs, VerifyUpdate(p) PROVE TokensInv'
  BY <1>5, UpdateKeeps
<1>6. ASSUME NEW p \in Procs, LockBegin(p) \/ AppendRead(p) PROVE TokensInv'
  <2>1. PICK l \in {"lock", "append"} : Begins(p, l, None)
    BY <1>6 DEF LockBegin, AppendRead
  <2>2. UNCHANGED <<clock, token, spent>>
    BY <1>6 DEF LockBegin, AppendRead, db, hist
  <2>3. /\ pc' \in [Procs -> Places] /\ what' \in [Procs -> Duals \cup Tokens \cup {None}]
        /\ \A q \in Procs \ {p} : pc'[q] = pc[q] /\ what'[q] = what[q]
        /\ pc'[p] = l
    BY <1>typed, <2>1, BeginsTyped DEF Places
  <2> QED BY <1>typed, <2>1, <2>2, <2>3, TokensUntouched DEF TokensInv, TransactsADual
<1>7. ASSUME NEW p \in Procs,
             \/ AcquireDeployLock(p) \/ AppendWrite(p) \/ Rollback(p)
             \/ Flush(p) \/ Crash(p)
      PROVE  TokensInv'
  <2>1. UNCHANGED <<clock, token, spent>> /\ Ends(p)
    BY <1>7 DEF AcquireDeployLock, AppendWrite, Rollback, Flush, Crash, TakeLock, db, hist
  <2> QED BY <1>typed, <2>1, EndsTyped, TokensUntouched DEF TokensInv, TransactsADual
<1>8. ASSUME NEW p \in Procs, ReleaseDeployLock(p) PROVE TokensInv'
  <2>1. UNCHANGED <<clock, token, spent, pc, what>>
    BY <1>8 DEF ReleaseDeployLock, proc
  <2> QED BY <2>1, <1>typed, TokensUntouched DEF TokensTyped, TokensInv, TransactsADual
<1>9. ASSUME NEW p \in Procs, Commit(p) PROVE TokensInv'
  BY <1>9, CommitKeeps
<1>10. ASSUME NEW p \in Procs, FlushFails(p) PROVE TokensInv'
  <2>1. UNCHANGED <<clock, token, spent, what>> /\ pc' = [pc EXCEPT ![p] = "except"]
    BY <1>10 DEF FlushFails, db, hist
  <2>2. pc' \in [Procs -> Places] /\ pc'[p] = "except" /\ \A q \in Procs \ {p} : pc'[q] = pc[q]
    BY <2>1, <1>typed DEF TokensTyped, Places
  <2> QED BY <2>1, <2>2, <1>typed, TokensUntouched DEF TokensTyped, TokensInv, TransactsADual
<1>11. CASE Tick
  <2>1. UNCHANGED <<token, spent, pc, what>> /\ clock' \in Times
    BY <1>11, <1>typed, TtlAssumption DEF Tick, db, proc, Times
  <2> QED BY <2>1, <1>typed, TokensUntouched DEF TokensTyped, TokensInv, TransactsADual
<1>12. CASE UNCHANGED vars
  BY <1>12, <1>typed, TokensUntouched
     DEF vars, db, proc, hist, TokensTyped, TokensInv, TransactsADual
<1> QED BY <1>1, <1>2, <1>3, <1>4, <1>5, <1>6, <1>7, <1>8, <1>9, <1>10, <1>11, <1>12 DEF Next

LEMMA TokensInvariant == Spec => []TokensInv
BY TokensInit, TokensNext, PTL DEF Spec

\* A token is accepted at most once, by verify_token or pre_deploy_atomic,
\* however many callers present it at the same time.
THEOREM AcceptedOnce == Spec => []SpentOnce
<1>1. TokensInv => SpentOnce
  BY DEF TokensInv, AcceptedIsUsed, SpentOnce
<1> QED BY TokensInvariant, <1>1, PTL

\* A token that has been revoked is not accepted any more, not even by a
\* verify_token that had read its row before the revocation.
THEOREM NotAfterRevocation == Spec => RevokedStaysRevoked
<1> DEFINE A == \A t \in Tokens : token[t] # None /\ token[t].revoked => spent'[t] = spent[t]
<1>1. TokensInv /\ [Next]_vars => [A]_vars
  <2> SUFFICES ASSUME TokensInv, Next, NEW t \in Tokens, token[t] # None, token[t].revoked
               PROVE  spent'[t] = spent[t]
    BY DEF vars
  <2>1. \A ts \in SUBSET Tokens : Spend(ts) /\ t \notin ts => spent'[t] = spent[t]
    BY DEF Spend
  <2>2. ASSUME NEW p \in Procs, VerifyUpdate(p) PROVE spent'[t] = spent[t]
    <3>1. what[p] \in Tokens
      BY <2>2 DEF VerifyUpdate, TokensInv, UpdatesARow
    <3>2. CASE Unspent(what[p])
      <4>1. Spend({what[p]}) /\ what[p] # t
        BY <2>2, <3>2 DEF VerifyUpdate, Unspent
      <4> QED BY <4>1, <3>1, <2>1
    <3>3. CASE ~Unspent(what[p])
      BY <2>2, <3>3 DEF VerifyUpdate
    <3> QED BY <3>2, <3>3
  <2>3. ASSUME NEW p \in Procs, Commit(p) PROVE spent'[t] = spent[t]
    <3>1. Both(what[p]) \in SUBSET Tokens
      BY <2>3 DEF Commit, TokensInv, TransactsADual, Both, Tokens
    <3>2. Spend(Both(what[p])) /\ t \notin Both(what[p])
      BY <2>3 DEF Commit, Acceptable, Unspent
    <3> QED BY <3>1, <3>2, <2>1
  <2>4. ASSUME NEW d \in Duals, RequestDual(d) PROVE spent'[t] = spent[t]
    BY <2>4 DEF RequestDual, hist
  <2>5. ASSUME NEW u \in Tokens, RevokeToken(u) PROVE spent'[t] = spent[t]
    BY <2>5 DEF RevokeToken, hist
  <2>6. ASSUME NEW p \in Procs,
               \/ \E u \in Tokens : VerifyRead(p, u)
               \/ \E d \in Duals : PreDeployBegin(p, d)
               \/ LockBegin(p) \/ AcquireDeployLock(p) \/ ReleaseDeployLock(p)
               \/ AppendRead(p) \/ AppendWrite(p)
               \/ Rollback(p) \/ Flush(p) \/ FlushFails(p) \/ Crash(p)
        PROVE  spent'[t] = spent[t]
    BY <2>6 DEF VerifyRead, PreDeployBegin, LockBegin, AcquireDeployLock, ReleaseDeployLock,
       AppendRead, AppendWrite, Rollback, Flush, FlushFails, Crash, hist
  <2>7. CASE Tick
    BY <2>7 DEF Tick
  <2> QED BY <2>2, <2>3, <2>4, <2>5, <2>6, <2>7 DEF Next
<1> QED BY TokensInvariant, <1>1, PTL DEF Spec, RevokedStaysRevoked

-----------------------------------------------------------------------------
(* The deploy lock *)

LockRow == [holder: Procs, exp: Nat]

ClocksTyped ==
  /\ clock \in Nat
  /\ now \in [Procs -> Nat] /\ \A p \in Procs : now[p] <= clock
  /\ holds \in [Procs -> Nat]
  /\ lock \in LockRow \cup {None}

\* Whoever believes in the lock has the row, with the expiry it was told.
BelieverHasRow ==
  \A p \in Procs : holds[p] > clock => lock # None /\ lock.holder = p /\ lock.exp = holds[p]

LockInv == ClocksTyped /\ BelieverHasRow

LEMMA LockInit == Init => LockInv
BY DEF Init, LockInv, ClocksTyped, BelieverHasRow

\* The row is replaced only when it has expired, by the clock reading of the
\* one who replaces it, and that reading is not ahead of the clock.
LEMMA TakingKeeps ==
  ASSUME LockInv, NEW p \in Procs, LockFree(now[p]), TakeLock(p), clock' = clock,
         now' \in [Procs -> Nat], \A q \in Procs : now'[q] <= clock
  PROVE  LockInv'
<1>1. lock' = [holder |-> p, exp |-> now[p] + TTL]
      /\ holds' = [holds EXCEPT ![p] = now[p] + TTL]
  BY DEF TakeLock
<1>2. now[p] + TTL \in Nat
  BY TtlAssumption DEF LockInv, ClocksTyped
<1>3. lock' \in LockRow /\ lock' # None
  BY <1>1, <1>2, NoneAssumption DEF LockRow
<1>4. lock'.holder = p /\ lock'.exp = now[p] + TTL
  BY <1>1
<1>5. \A q \in Procs \ {p} : ~(holds[q] > clock)
  BY DEF LockInv, ClocksTyped, BelieverHasRow, LockFree, LockRow
<1>6. holds' \in [Procs -> Nat] /\ holds'[p] = now[p] + TTL
      /\ \A q \in Procs \ {p} : holds'[q] = holds[q]
  BY <1>1, <1>2 DEF LockInv, ClocksTyped
<1>7. ClocksTyped'
  BY <1>3, <1>6 DEF LockInv, ClocksTyped
<1>8. BelieverHasRow'
  BY <1>3, <1>4, <1>5, <1>6 DEF BelieverHasRow
<1> QED BY <1>7, <1>8 DEF LockInv

LEMMA ReleasingKeeps ==
  ASSUME LockInv, NEW p \in Procs, ReleaseDeployLock(p)
  PROVE  LockInv'
<1>1. lock' = None /\ holds' = [holds EXCEPT ![p] = 0] /\ UNCHANGED <<clock, now>>
      /\ lock # None /\ lock.holder = p
  BY DEF ReleaseDeployLock, HeldBy, proc
<1> QED BY <1>1 DEF LockInv, ClocksTyped, BelieverHasRow

\* A step that touches neither the lock nor the clock.
LEMMA LockUntouched ==
  ASSUME LockInv, UNCHANGED <<clock, lock, holds>>,
         now' \in [Procs -> Nat], \A q \in Procs : now'[q] <= clock
  PROVE  LockInv'
BY DEF LockInv, ClocksTyped, BelieverHasRow

LEMMA NowTyped ==
  ASSUME ClocksTyped, NEW p \in Procs, Ends(p) \/ ReadsClock(p) \/ UNCHANGED now
  PROVE  now' \in [Procs -> Nat] /\ \A q \in Procs : now'[q] <= clock
BY DEF ClocksTyped, Ends, ReadsClock

LEMMA LockNext == LockInv /\ [Next]_vars => LockInv'
<1> SUFFICES ASSUME LockInv, [Next]_vars PROVE LockInv'
  OBVIOUS
<1>typed. ClocksTyped
  BY DEF LockInv
<1>1. ASSUME NEW p \in Procs, AcquireDeployLock(p) PROVE LockInv'
  <2>1. Ends(p) /\ clock' = clock
    BY <1>1 DEF AcquireDeployLock
  <2>2. CASE LockFree(now[p])
    <3>1. TakeLock(p)
      BY <1>1, <2>2 DEF AcquireDeployLock
    <3> QED BY <2>1, <2>2, <3>1, <1>typed, NowTyped, TakingKeeps
  <2>3. CASE ~LockFree(now[p])
    <3>1. UNCHANGED <<lock, holds>>
      BY <1>1, <2>3 DEF AcquireDeployLock
    <3> QED BY <2>1, <3>1, <1>typed, NowTyped, LockUntouched
  <2> QED BY <2>2, <2>3
<1>2. ASSUME NEW p \in Procs, Commit(p) PROVE LockInv'
  <2>1. LockFree(now[p]) /\ TakeLock(p) /\ UNCHANGED <<clock, now>>
    BY <1>2 DEF Commit
  <2> QED BY <2>1, <1>typed, NowTyped, <1>2, TakingKeeps
<1>3. ASSUME NEW p \in Procs, ReleaseDeployLock(p) PROVE LockInv'
  BY <1>3, ReleasingKeeps
<1>4. ASSUME NEW p \in Procs,
             \/ \E d \in Duals : PreDeployBegin(p, d)
             \/ \E t \in Tokens : VerifyRead(p, t)
             \/ VerifyUpdate(p) \/ LockBegin(p) \/ AppendRead(p) \/ AppendWrite(p)
             \/ Rollback(p) \/ Flush(p) \/ FlushFails(p) \/ Crash(p)
      PROVE  LockInv'
  <2>1. UNCHANGED <<clock, lock, holds>> /\ (Ends(p) \/ ReadsClock(p) \/ UNCHANGED now)
    BY <1>4 DEF PreDeployBegin, VerifyRead, VerifyUpdate, LockBegin, AppendRead, AppendWrite,
       Rollback, Flush, FlushFails, Crash, db, hist
  <2> QED BY <2>1, <1>typed, NowTyped, LockUntouched
<1>5. ASSUME \/ \E d \in Duals : RequestDual(d)
             \/ \E t \in Tokens : RevokeToken(t)
             \/ UNCHANGED vars
      PROVE  LockInv'
  <2>1. UNCHANGED <<clock, lock, holds, now>>
    BY <1>5 DEF RequestDual, RevokeToken, vars, db, proc, hist
  <2> QED BY <2>1 DEF LockInv, ClocksTyped, BelieverHasRow
<1>6. CASE Tick
  <2>1. clock' = clock + 1 /\ UNCHANGED <<lock, now>>
        /\ holds' = [p \in Procs |-> IF holds[p] <= clock' THEN 0 ELSE holds[p]]
    BY <1>6 DEF Tick, db, proc
  <2> QED BY <2>1 DEF LockInv, ClocksTyped, BelieverHasRow
<1> QED BY <1>1, <1>2, <1>3, <1>4, <1>5, <1>6 DEF Next

\* No two processes believe at the same time that the deploy lock is theirs,
\* whoever is slow, releases late or read the clock before it waited.
THEOREM OneBeliever == Spec => []DeployExclusion
<1>1. LockInv => DeployExclusion
  BY DEF LockInv, BelieverHasRow, DeployExclusion
<1> QED BY LockInit, LockNext, <1>1, PTL DEF Spec

-----------------------------------------------------------------------------
(* Types *)

Line == Block \cup {Torn, Garbled}

LockTyped ==
  /\ lock \in [holder: Procs, exp: 0..(MaxTime + TTL)] \cup {None}
  /\ now \in [Procs -> Times] /\ holds \in [Procs -> 0..(MaxTime + TTL)]

\* Every block stands for an approval that was used or for a call of append:
\* this is what bounds its index.
UsedDuals == {d \in Duals : token[<<d, "primary">>] # None /\ token[<<d, "primary">>].used}
Blocks == Cardinality(UsedDuals) + appends

Staged(p) == pc[p] \in {"append", "flush"}

FilesTyped ==
  /\ appends \in 0..MaxAppends
  /\ chain \in [Indices -> Duals \cup {None}]
  /\ jsonl \in Seq(Line) /\ \A i \in DOMAIN jsonl : jsonl[i].index < Blocks
  /\ entry \in [Procs -> Block \cup {None}] /\ cut \in BOOLEAN
  /\ \A p \in Procs : Staged(p) => entry[p] \in Block /\ entry[p].index < Blocks

LEMMA BlocksTyped ==
  ASSUME appends \in 0..MaxAppends
  PROVE  /\ IsFiniteSet(UsedDuals) /\ Cardinality(UsedDuals) \in Nat
         /\ Cardinality(Duals) \in Nat /\ Cardinality(UsedDuals) <= Cardinality(Duals)
         /\ Blocks \in Nat /\ Blocks <= Cardinality(Duals) + MaxAppends
<1>1. UsedDuals \in SUBSET Duals
  BY DEF UsedDuals
<1>2. /\ IsFiniteSet(UsedDuals) /\ Cardinality(UsedDuals) \in Nat
      /\ Cardinality(Duals) \in Nat /\ Cardinality(UsedDuals) <= Cardinality(Duals)
  BY <1>1, DualsAssumption, FS_Subset, FS_CardinalityType
<1>3. appends \in Nat /\ MaxAppends \in Nat /\ appends <= MaxAppends
  BY TtlAssumption
<1>4. Blocks = Cardinality(UsedDuals) + appends
  BY DEF Blocks
<1> QED BY <1>2, <1>3, <1>4

LEMMA LineTyped ==
  ASSUME NEW e \in Line
  PROVE  e.index \in Int /\ (e \notin {Torn, Garbled} => e \in Block /\ e.index \in Nat)
<1>1. CASE e \in Block
  <2>1. e.index \in Indices
    BY <1>1 DEF Block
  <2> QED BY <1>1, <2>1, TtlAssumption DEF Indices
<1>2. CASE e = Torn \/ e = Garbled
  BY <1>2 DEF Torn, Garbled
<1> QED BY <1>1, <1>2 DEF Line

LEMMA LastTyped ==
  ASSUME NEW l \in Seq(Line), l # <<>>
  PROVE  Len(l) \in DOMAIN l /\ Last(l) = l[Len(l)] /\ Last(l) \in Line
<1>1. Len(l) \in DOMAIN l
  BY EmptySeq, LenProperties
<1>2. l[Len(l)] \in Line
  BY <1>1, ElementOfSeq
<1> QED BY <1>1, <1>2 DEF Last

\* The next block's index is not beyond the blocks there are.
LEMMA NextBlockTyped ==
  ASSUME FilesTyped, NEW id \in EntryId
  PROVE  NextBlock(id) \in Block /\ NextBlock(id).index <= Blocks
<1>1. /\ Blocks \in Nat /\ Cardinality(Duals) \in Nat /\ MaxAppends \in Nat
      /\ Blocks <= Cardinality(Duals) + MaxAppends
  BY BlocksTyped, TtlAssumption DEF FilesTyped
<1>2. \A i \in Nat : i <= Blocks => i \in Indices
  BY <1>1 DEF Indices
<1>3. CASE LastEntry = None
  <2>1. NextBlock(id) = [index |-> 0, prev |-> None, id |-> id]
    BY <1>3 DEF NextBlock
  <2>2. 0 \in Indices /\ 0 <= Blocks
    BY <1>1, <1>2
  <2> QED BY <2>1, <2>2 DEF Block
<1>4. CASE LastEntry # None
  <2>1. jsonl # <<>> /\ LastEntry = Last(jsonl) /\ Last(jsonl) \notin {Torn, Garbled}
    BY <1>4 DEF LastEntry
  <2>2. PICK e \in Block : e = LastEntry /\ e.index \in Nat /\ e.index < Blocks
    <3>1. /\ Len(jsonl) \in DOMAIN jsonl /\ Last(jsonl) = jsonl[Len(jsonl)]
          /\ Last(jsonl) \in Line
      BY <2>1, LastTyped DEF FilesTyped
    <3>2. Last(jsonl) \in Block /\ Last(jsonl).index \in Nat
      BY <2>1, <3>1, LineTyped
    <3> QED BY <2>1, <3>1, <3>2 DEF FilesTyped
  <2>3. NextBlock(id) = [index |-> e.index + 1, prev |-> e.id, id |-> id]
    BY <1>4, <2>2 DEF NextBlock
  <2>4. e.index + 1 \in Nat /\ e.index + 1 <= Blocks
    BY <1>1, <2>2
  <2>5. e.id \in EntryId
    BY DEF Block
  <2> QED BY <1>2, <2>3, <2>4, <2>5 DEF Block
<1> QED BY <1>3, <1>4

\* What a write, complete or not, leaves in the file.
LEMMA AppendKeeps ==
  ASSUME NEW l \in Seq(Line), NEW e \in Line, NEW n \in Nat, e.index < n,
         \A i \in DOMAIN l : l[i].index < n
  PROVE  Append(l, e) \in Seq(Line) /\ \A i \in DOMAIN Append(l, e) : Append(l, e)[i].index < n
<1> DEFINE a == Append(l, e)
<1>1. /\ a \in Seq(Line) /\ DOMAIN a = 1..(Len(l) + 1) /\ DOMAIN l = 1..Len(l)
      /\ Len(l) \in Nat /\ \A i \in 1..Len(l) : a[i] = l[i]
      /\ a[Len(l) + 1] = e
  BY AppendProperties, LenProperties
<1>2. \A i \in DOMAIN a : i \in DOMAIN l \/ i = Len(l) + 1
  BY <1>1
<1> HIDE DEF a
<1>3. \A i \in DOMAIN a : a[i].index < n
  BY <1>1, <1>2
<1> QED BY <1>1, <1>3 DEF a

LEMMA FrontKeeps ==
  ASSUME NEW l \in Seq(Line)
  PROVE  /\ Front(l) \in Seq(Line)
         /\ \A i \in DOMAIN Front(l) : i \in DOMAIN l /\ Front(l)[i] = l[i]
<1> DEFINE n == Len(l) - 1
<1>1. Len(l) \in Nat /\ DOMAIN l = 1..Len(l) /\ n \in Int
  BY LenProperties
<1>2. \A i \in 1..n : l[i] \in Line
  BY <1>1, ElementOfSeq
<1>3. Front(l) = SubSeq(l, 1, n)
  BY DEF Front
<1> HIDE DEF n
<1>4. /\ Front(l) \in Seq(Line) /\ Len(Front(l)) = IF 1 <= n THEN n - 1 + 1 ELSE 0
      /\ \A i \in 1..(n - 1 + 1) : Front(l)[i] = l[1 + i - 1]
  BY <1>1, <1>2, <1>3, SubSeqProperties
<1>5. n < 1 => DOMAIN Front(l) = {}
  BY <1>1, <1>4
<1>6. n >= 1 => DOMAIN Front(l) = 1..n
  BY <1>1, <1>4
<1>7. n = Len(l) - 1
  BY DEF n
<1>8. \A i \in 1..n : i \in DOMAIN l /\ i \in 1..(n - 1 + 1) /\ 1 + i - 1 = i
  BY <1>1, <1>7
<1>9. \A i \in 1..n : i \in DOMAIN l /\ Front(l)[i] = l[i]
  BY <1>4, <1>8
<1>10. \A i \in DOMAIN Front(l) : i \in 1..n
  BY <1>1, <1>5, <1>6
<1> QED BY <1>4, <1>9, <1>10

\* What can happen to the file.
Lines(p) == \/ jsonl' = jsonl
            \/ jsonl' = Append(jsonl, Torn)
            \/ jsonl' = Append(Front(jsonl), Torn)
            \/ jsonl' = Append(Front(jsonl), Garbled)
            \/ jsonl' = Append(jsonl, entry[p]) /\ Staged(p)

LEMMA FileSteps ==
  ASSUME [Next]_vars
  PROVE  jsonl' = jsonl \/ \E p \in Procs : Lines(p)
<1>1. ASSUME NEW p \in Procs, AppendWrite(p) \/ Flush(p) \/ FlushFails(p)
      PROVE  Lines(p)
  BY <1>1 DEF AppendWrite, Flush, FlushFails, Write, WriteFails, Lines, Staged, file
<1>2. ASSUME NEW p \in Procs,
             \/ \E t \in Tokens : VerifyRead(p, t)
             \/ \E d \in Duals : PreDeployBegin(p, d)
             \/ VerifyUpdate(p) \/ LockBegin(p) \/ AcquireDeployLock(p) \/ ReleaseDeployLock(p)
             \/ AppendRead(p) \/ Commit(p) \/ Rollback(p) \/ Crash(p)
      PROVE  jsonl' = jsonl
  BY <1>2 DEF VerifyRead, PreDeployBegin, VerifyUpdate, LockBegin, AcquireDeployLock,
     ReleaseDeployLock, AppendRead, Commit, Rollback, Crash, file
<1>3. ASSUME \/ \E d \in Duals : RequestDual(d)
             \/ \E t \in Tokens : RevokeToken(t)
             \/ Tick \/ UNCHANGED vars
      PROVE  jsonl' = jsonl
  BY <1>3 DEF RequestDual, RevokeToken, Tick, vars, file
<1> QED BY <1>1, <1>2, <1>3 DEF Next

LEMMA FileKeeps ==
  ASSUME FilesTyped, [Next]_vars, NEW n \in Nat, Blocks <= n
  PROVE  jsonl' \in Seq(Line) /\ \A i \in DOMAIN jsonl' : jsonl'[i].index < n
<1>1. jsonl \in Seq(Line) /\ \A i \in DOMAIN jsonl : jsonl[i].index < Blocks
  BY DEF FilesTyped
<1>2. Blocks \in Nat
  BY BlocksTyped DEF FilesTyped
<1>3. \A i \in DOMAIN jsonl : jsonl[i].index < n
  <2> TAKE i \in DOMAIN jsonl
  <2>1. jsonl[i].index \in Int
    BY <1>1, ElementOfSeq, LineTyped
  <2> QED BY <1>1, <1>2, <2>1
<1>4. Torn \in Line /\ Torn.index < n /\ Garbled \in Line /\ Garbled.index < n
  <2>1. Torn.index = -1 /\ Garbled.index = -2
    BY DEF Torn, Garbled
  <2> QED BY <2>1 DEF Line
<1>5. CASE jsonl' = jsonl
  BY <1>1, <1>3, <1>5
<1>6. ASSUME NEW p \in Procs, Lines(p)
      PROVE  jsonl' \in Seq(Line) /\ \A i \in DOMAIN jsonl' : jsonl'[i].index < n
  <2>1. CASE jsonl' = Append(jsonl, Torn)
    BY <1>1, <1>3, <1>4, <2>1, AppendKeeps
  <2>2. CASE jsonl' = Append(Front(jsonl), Torn) \/ jsonl' = Append(Front(jsonl), Garbled)
    <3>1. Front(jsonl) \in Seq(Line) /\ \A i \in DOMAIN Front(jsonl) : Front(jsonl)[i].index < n
      BY <1>1, <1>3, FrontKeeps
    <3> QED BY <1>4, <2>2, <3>1, AppendKeeps
  <2>3. CASE jsonl' = Append(jsonl, entry[p]) /\ Staged(p)
    <3>1. entry[p] \in Block /\ entry[p].index < Blocks
      BY <2>3 DEF FilesTyped
    <3>2. entry[p] \in Line /\ entry[p].index \in Int
      BY <3>1, LineTyped DEF Line
    <3>3. entry[p].index < n
      BY <1>2, <3>1, <3>2
    <3> QED BY <1>1, <1>3, <2>3, <3>2, <3>3, AppendKeeps
  <2> QED BY <1>5, <1>6, <2>1, <2>2, <2>3 DEF Lines
<1> QED BY <1>5, <1>6, FileSteps

\* An approval that was used stays used.
LEMMA UsedStays ==
  ASSUME TokensInv, [Next]_vars
  PROVE  UsedDuals \subseteq UsedDuals'
<1>1. token \in [Tokens -> TokenRow \cup {None}]
  BY DEF TokensInv, TokensTyped
<1>2. SUFFICES ASSUME NEW t \in Tokens, token[t] # None, token[t].used
               PROVE  token'[t] # None /\ token'[t].used
  BY DEF UsedDuals, Tokens
<1>3. token[t] \in TokenRow
  BY <1>1, <1>2
<1>4. ASSUME NEW ts, Spend(ts) PROVE token'[t] # None /\ token'[t].used
  <2>1. token'[t] = token[t] \/ token'[t] = [token[t] EXCEPT !.used = TRUE]
    BY <1>4 DEF Spend
  <2>2. [token[t] EXCEPT !.used = TRUE] \in TokenRow /\ [token[t] EXCEPT !.used = TRUE].used
    BY <1>3 DEF TokenRow
  <2> QED BY <1>2, <2>1, <2>2, NoneIsNoRow
<1>5. ASSUME NEW d \in Duals, RequestDual(d) PROVE token'[t] # None /\ token'[t].used
  <2>1. t[1] # d
    <3>1. t = <<t[1], "primary">> \/ t = <<t[1], "secondary">>
      BY DEF Tokens
    <3>2. token[<<d, "primary">>] = None /\ token[<<d, "secondary">>] = None
      BY <1>5 DEF RequestDual, TokensInv, Paired
    <3> QED BY <1>2, <3>1, <3>2
  <2>2. token'[t] = token[t]
    BY <1>5, <2>1 DEF RequestDual
  <2> QED BY <1>2, <2>2
<1>6. ASSUME NEW u \in Tokens, RevokeToken(u) PROVE token'[t] # None /\ token'[t].used
  <2>1. u # t
    BY <1>2, <1>6 DEF RevokeToken, Unspent
  <2>2. token'[t] = token[t]
    BY <1>1, <1>6, <2>1 DEF RevokeToken
  <2> QED BY <1>2, <2>2
<1>7. ASSUME NEW p \in Procs, VerifyUpdate(p) \/ Commit(p)
      PROVE  token'[t] # None /\ token'[t].used
  <2>1. token' = token \/ \E ts : Spend(ts)
    BY <1>7 DEF VerifyUpdate, Commit
  <2> QED BY <1>2, <1>4, <2>1
<1>8. ASSUME NEW p \in Procs,
             \/ \E u \in Tokens : VerifyRead(p, u)
             \/ \E d \in Duals : PreDeployBegin(p, d)
             \/ LockBegin(p) \/ AcquireDeployLock(p) \/ ReleaseDeployLock(p)
             \/ AppendRead(p) \/ AppendWrite(p)
             \/ Rollback(p) \/ Flush(p) \/ FlushFails(p) \/ Crash(p)
      PROVE  token' = token
  BY <1>8 DEF VerifyRead, PreDeployBegin, LockBegin, AcquireDeployLock, ReleaseDeployLock,
     AppendRead, AppendWrite, Rollback, Flush, FlushFails, Crash, db
<1>9. CASE Tick \/ UNCHANGED vars
  BY <1>2, <1>9 DEF Tick, vars, db
<1> QED BY <1>2, <1>5, <1>6, <1>7, <1>8, <1>9 DEF Next

LEMMA AppendsTyped ==
  ASSUME FilesTyped, [Next]_vars
  PROVE  /\ appends' \in 0..MaxAppends /\ appends <= appends'
         /\ \A p \in Procs : AppendRead(p) => appends' = appends + 1
<1>1. appends \in Nat /\ MaxAppends \in Nat /\ appends <= MaxAppends
  BY TtlAssumption DEF FilesTyped
<1>2. appends' = appends \/ (appends < MaxAppends /\ appends' = appends + 1)
  <2>1. ASSUME NEW p \in Procs, AppendRead(p)
        PROVE  appends < MaxAppends /\ appends' = appends + 1
    BY <2>1 DEF AppendRead
  <2>2. ASSUME NEW p \in Procs,
             \/ \E t \in Tokens : VerifyRead(p, t)
             \/ \E d \in Duals : PreDeployBegin(p, d)
             \/ VerifyUpdate(p) \/ LockBegin(p) \/ AcquireDeployLock(p) \/ ReleaseDeployLock(p)
             \/ AppendWrite(p) \/ Commit(p) \/ Rollback(p) \/ Flush(p) \/ FlushFails(p)
             \/ Crash(p)
        PROVE  appends' = appends
    BY <2>2 DEF VerifyRead, PreDeployBegin, VerifyUpdate, LockBegin, AcquireDeployLock,
       ReleaseDeployLock, AppendWrite, Commit, Rollback, Flush, FlushFails, Crash
  <2>3. ASSUME \/ \E d \in Duals : RequestDual(d)
               \/ \E t \in Tokens : RevokeToken(t)
               \/ Tick \/ UNCHANGED vars
        PROVE  appends' = appends
    BY <2>3 DEF RequestDual, RevokeToken, Tick, vars
  <2> QED BY <2>1, <2>2, <2>3 DEF Next
<1>3. appends' \in 0..MaxAppends /\ appends <= appends'
  BY <1>1, <1>2
<1>4. \A p \in Procs : AppendRead(p) => appends' = appends + 1
  BY DEF AppendRead
<1> QED BY <1>3, <1>4

LEMMA SumGrows ==
  ASSUME NEW a \in Nat, NEW b \in Nat, NEW c \in Nat, NEW d \in Nat, a <= c, b <= d
  PROVE  /\ a + b <= c + d /\ (a + 1 <= c => a + b + 1 <= c + d)
         /\ d = b + 1 => a + b + 1 <= c + d
OBVIOUS

\* A new block is accounted for before it is staged.
LEMMA BlocksGrow ==
  ASSUME TokensInv, FilesTyped, [Next]_vars
  PROVE  /\ Blocks' \in Nat /\ Blocks <= Blocks'
         /\ \A p \in Procs : AppendRead(p) \/ Commit(p) => Blocks + 1 <= Blocks'
<1> DEFINE u == UsedDuals
<1>1. /\ IsFiniteSet(UsedDuals) /\ Cardinality(UsedDuals) \in Nat /\ Blocks \in Nat
  BY BlocksTyped DEF FilesTyped
<1>2. appends' \in 0..MaxAppends /\ appends <= appends' /\ appends \in Nat /\ appends' \in Nat
  BY AppendsTyped DEF FilesTyped
<1>3. UsedDuals' \in SUBSET Duals
  BY DEF UsedDuals
<1>4. PICK v : v = UsedDuals'
  OBVIOUS
<1>5. IsFiniteSet(v) /\ Cardinality(v) \in Nat
  BY <1>3, <1>4, DualsAssumption, FS_Subset, FS_CardinalityType
<1>6. UsedDuals \subseteq v
  BY <1>4, UsedStays
<1>7. Cardinality(UsedDuals) <= Cardinality(v)
  BY <1>5, <1>6, FS_Subset
<1>8. Blocks' = Cardinality(v) + appends'
  BY <1>4 DEF Blocks
<1>9. PICK m \in Nat : m = appends'
  BY <1>2
<1>10. appends <= m /\ Blocks' = Cardinality(v) + m /\ Blocks = Cardinality(UsedDuals) + appends
  BY <1>2, <1>8, <1>9 DEF Blocks
<1>11. Cardinality(v) + m \in Nat /\ Blocks <= Cardinality(v) + m
  BY <1>1, <1>2, <1>5, <1>7, <1>10, SumGrows
<1>12. ASSUME NEW p \in Procs, AppendRead(p) PROVE Blocks + 1 <= Cardinality(v) + m
  <2>1. m = appends + 1
    BY <1>9, <1>12, AppendsTyped
  <2> QED BY <1>1, <1>2, <1>5, <1>7, <1>10, <2>1, SumGrows
<1>13. ASSUME NEW p \in Procs, Commit(p) PROVE Blocks + 1 <= Cardinality(v) + m
  <2> DEFINE d == what[p]
             t == <<d, "primary">>
  <2>1. d \in Duals /\ t \in Tokens /\ t \in Both(d)
    BY <1>13 DEF Commit, TokensInv, TransactsADual, Both, Tokens
  <2>2. token[t] # None /\ ~token[t].used /\ token[t] \in TokenRow
    BY <1>13, <2>1 DEF Commit, Acceptable, Unspent, TokensInv, TokensTyped
  <2>3. token'[t] = [token[t] EXCEPT !.used = TRUE]
    BY <1>13, <2>1 DEF Commit, Spend
  <2>4. [token[t] EXCEPT !.used = TRUE] \in TokenRow /\ [token[t] EXCEPT !.used = TRUE].used
    BY <2>2 DEF TokenRow
  <2>5. d \in UsedDuals'
    BY <2>1, <2>3, <2>4, NoneIsNoRow DEF UsedDuals
  <2>6. d \notin UsedDuals /\ UsedDuals \cup {d} \subseteq v
    BY <1>4, <1>6, <2>2, <2>5 DEF UsedDuals
  <2> HIDE DEF d
  <2>7. Cardinality(UsedDuals \cup {d}) = Cardinality(UsedDuals) + 1
    BY <1>1, <2>6, FS_AddElement
  <2>8. Cardinality(UsedDuals \cup {d}) <= Cardinality(v)
    BY <1>5, <2>6, FS_Subset
  <2>9. Cardinality(UsedDuals) + 1 <= Cardinality(v)
    BY <2>7, <2>8
  <2> QED BY <1>1, <1>2, <1>5, <1>7, <1>10, <2>9, SumGrows
<1> QED BY <1>10, <1>11, <1>12, <1>13

\* What a process holds in its hands is dropped or is the next block.
LEMMA EntrySteps ==
  ASSUME TokensInv, FilesTyped, [Next]_vars, NEW p \in Procs
  PROVE  \/ entry'[p] = entry[p] /\ (Staged(p)' => Staged(p) /\ pc'[p] = pc[p])
         \/ entry'[p] = None /\ ~Staged(p)'
         \/ AppendRead(p) /\ entry'[p] = NextBlock(appends') /\ pc'[p] = "append"
         \/ Commit(p) /\ entry'[p] = NextBlock(what[p]) /\ pc'[p] = "flush"
<1>1. pc \in [Procs -> Places] /\ entry \in [Procs -> Block \cup {None}]
  BY DEF TokensInv, TokensTyped, FilesTyped
<1> DEFINE Stays == entry'[p] = entry[p] /\ (Staged(p)' => Staged(p) /\ pc'[p] = pc[p])
<1>2. ASSUME NEW q \in Procs,
             \/ \E t \in Tokens : VerifyRead(q, t)
             \/ \E d \in Duals : PreDeployBegin(q, d)
             \/ LockBegin(q) \/ ReleaseDeployLock(q) \/ FlushFails(q)
      PROVE  Stays
  <2>1. entry' = entry /\ (pc' = pc \/ \E l \in Places \ {"append", "flush"} : pc' = [pc EXCEPT ![q] = l])
    BY <1>2 DEF VerifyRead, PreDeployBegin, LockBegin, ReleaseDeployLock, FlushFails, Begins,
       proc, Places
  <2> QED BY <1>1, <2>1 DEF Staged
<1>3. ASSUME NEW q \in Procs,
             \/ VerifyUpdate(q) \/ AcquireDeployLock(q) \/ AppendWrite(q) \/ Rollback(q)
             \/ Flush(q) \/ Crash(q)
      PROVE  Stays \/ (entry'[p] = None /\ ~Staged(p)')
  <2>1. entry' = [entry EXCEPT ![q] = None] /\ pc' = [pc EXCEPT ![q] = "idle"]
    BY <1>3 DEF VerifyUpdate, AcquireDeployLock, AppendWrite, Rollback, Flush, Crash, Ends
  <2> QED BY <1>1, <2>1 DEF Staged
<1>4. ASSUME NEW q \in Procs, AppendRead(q)
      PROVE  Stays \/ (q = p /\ entry'[p] = NextBlock(appends') /\ pc'[p] = "append")
  <2>1. entry' = [entry EXCEPT ![q] = NextBlock(appends')] /\ pc' = [pc EXCEPT ![q] = "append"]
    BY <1>4 DEF AppendRead, Begins
  <2> QED BY <1>1, <2>1 DEF Staged
<1>5. ASSUME NEW q \in Procs, Commit(q)
      PROVE  Stays \/ (q = p /\ entry'[p] = NextBlock(what[p]) /\ pc'[p] = "flush")
  <2>1. entry' = [entry EXCEPT ![q] = NextBlock(what[q])] /\ pc' = [pc EXCEPT ![q] = "flush"]
    BY <1>5 DEF Commit
  <2> QED BY <1>1, <2>1 DEF Staged
<1>6. ASSUME \/ \E d \in Duals : RequestDual(d)
             \/ \E t \in Tokens : RevokeToken(t)
             \/ Tick \/ UNCHANGED vars
      PROVE  Stays
  BY <1>6 DEF RequestDual, RevokeToken, Tick, vars, proc, Staged
<1> QED BY <1>2, <1>3, <1>4, <1>5, <1>6 DEF Next

LEMMA NextEntries ==
  ASSUME TokensInv, FilesTyped, [Next]_vars, NEW n \in Nat, Blocks <= n,
         \A p \in Procs : AppendRead(p) \/ Commit(p) => Blocks + 1 <= n,
         NEW q \in Procs
  PROVE  /\ entry'[q] \in Block \cup {None}
         /\ Staged(q)' => entry'[q] \in Block /\ entry'[q].index < n
<1>1. Blocks \in Nat
  BY BlocksTyped DEF FilesTyped
<1>2. entry[q] \in Block \cup {None} /\ (Staged(q) => entry[q] \in Block /\ entry[q].index < Blocks)
  BY DEF FilesTyped
<1>3. CASE entry'[q] = entry[q] /\ (Staged(q)' => Staged(q) /\ pc'[q] = pc[q])
  <2>1. Staged(q) => entry[q] \in Block /\ entry[q].index < n
    <3>1. Staged(q) => entry[q].index \in Int
      BY <1>2, LineTyped DEF Line
    <3> QED BY <1>1, <1>2, <3>1
  <2> QED BY <1>2, <1>3, <2>1
<1>4. CASE entry'[q] = None /\ ~Staged(q)'
  BY <1>4
<1>5. ASSUME NEW id \in EntryId, entry'[q] = NextBlock(id), Blocks + 1 <= n
      PROVE  entry'[q] \in Block /\ entry'[q].index < n
  <2>1. NextBlock(id) \in Block /\ NextBlock(id).index <= Blocks
    BY NextBlockTyped
  <2>2. NextBlock(id).index \in Int
    BY <2>1, LineTyped DEF Line
  <2>3. NextBlock(id).index < n
    BY <1>1, <1>5, <2>1, <2>2
  <2> QED BY <1>5, <2>1, <2>3
<1>6. CASE AppendRead(q) /\ entry'[q] = NextBlock(appends')
  <2>1. appends' = appends + 1 /\ appends < MaxAppends
    BY <1>6 DEF AppendRead
  <2>2. appends + 1 \in EntryId
    BY <2>1, TtlAssumption DEF FilesTyped, EntryId
  <2> QED BY <1>5, <1>6, <2>1, <2>2
<1>7. CASE Commit(q) /\ entry'[q] = NextBlock(what[q])
  <2>1. what[q] \in EntryId
    BY <1>7 DEF Commit, TokensInv, TransactsADual, EntryId
  <2> QED BY <1>5, <1>7, <2>1
<1> QED BY <1>3, <1>4, <1>6, <1>7, EntrySteps

LEMMA ChainSteps ==
  ASSUME [Next]_vars
  PROVE  \/ chain' = chain
         \/ \E p \in Procs : /\ Commit(p)
                            /\ chain' = [chain EXCEPT ![NextBlock(what[p]).index] = what[p]]
<1>1. ASSUME NEW p \in Procs, Commit(p)
      PROVE  chain' = [chain EXCEPT ![NextBlock(what[p]).index] = what[p]]
  BY <1>1 DEF Commit
<1>2. ASSUME NEW p \in Procs,
             \/ \E t \in Tokens : VerifyRead(p, t)
             \/ \E d \in Duals : PreDeployBegin(p, d)
             \/ VerifyUpdate(p) \/ LockBegin(p) \/ AcquireDeployLock(p) \/ ReleaseDeployLock(p)
             \/ AppendRead(p) \/ AppendWrite(p) \/ Rollback(p) \/ Flush(p) \/ FlushFails(p)
             \/ Crash(p)
      PROVE  chain' = chain
  BY <1>2 DEF VerifyRead, PreDeployBegin, VerifyUpdate, LockBegin, AcquireDeployLock,
     ReleaseDeployLock, AppendRead, AppendWrite, Rollback, Flush, FlushFails, Crash, db
<1>3. ASSUME \/ \E d \in Duals : RequestDual(d)
             \/ \E t \in Tokens : RevokeToken(t)
             \/ Tick \/ UNCHANGED vars
      PROVE  chain' = chain
  BY <1>3 DEF RequestDual, RevokeToken, Tick, vars, db
<1> QED BY <1>1, <1>2, <1>3 DEF Next

LEMMA CutTyped ==
  ASSUME cut \in BOOLEAN, [Next]_vars
  PROVE  cut' \in BOOLEAN
<1>1. ASSUME NEW p \in Procs,
             \/ \E t \in Tokens : VerifyRead(p, t)
             \/ \E d \in Duals : PreDeployBegin(p, d)
             \/ VerifyUpdate(p) \/ LockBegin(p) \/ AcquireDeployLock(p) \/ ReleaseDeployLock(p)
             \/ AppendRead(p) \/ Commit(p) \/ Rollback(p) \/ Crash(p)
      PROVE  cut' = cut
  BY <1>1 DEF VerifyRead, PreDeployBegin, VerifyUpdate, LockBegin, AcquireDeployLock,
     ReleaseDeployLock, AppendRead, Commit, Rollback, Crash, file
<1>2. ASSUME \/ \E d \in Duals : RequestDual(d)
             \/ \E t \in Tokens : RevokeToken(t)
             \/ Tick \/ UNCHANGED vars
      PROVE  cut' = cut
  BY <1>2 DEF RequestDual, RevokeToken, Tick, vars, file
<1>3. ASSUME NEW p \in Procs, AppendWrite(p) \/ Flush(p) \/ FlushFails(p)
      PROVE  cut' = cut \/ cut' = FALSE \/ cut' = TRUE
  BY <1>3 DEF AppendWrite, Flush, FlushFails, Write, WriteFails, file
<1> QED BY <1>1, <1>2, <1>3 DEF Next

LEMMA NextFilesTyped == TokensInv /\ FilesTyped /\ [Next]_vars => FilesTyped'
<1> SUFFICES ASSUME TokensInv, FilesTyped, [Next]_vars PROVE FilesTyped'
  OBVIOUS
<1>1. PICK n \in Nat : /\ n = Blocks' /\ Blocks <= n
                       /\ \A p \in Procs : AppendRead(p) \/ Commit(p) => Blocks + 1 <= n
  BY BlocksGrow
<1>2. appends' \in 0..MaxAppends
  BY AppendsTyped
<1>3. chain' \in [Indices -> Duals \cup {None}]
  <2>1. chain \in [Indices -> Duals \cup {None}]
    BY DEF FilesTyped
  <2>2. \A p \in Procs : Commit(p) => what[p] \in Duals
    BY DEF Commit, TokensInv, TransactsADual
  <2> QED BY <2>1, <2>2, ChainSteps
<1>4. jsonl' \in Seq(Line) /\ \A i \in DOMAIN jsonl' : jsonl'[i].index < n
  BY <1>1, FileKeeps
<1>5. \A q \in Procs : /\ entry'[q] \in Block \cup {None}
                       /\ Staged(q)' => entry'[q] \in Block /\ entry'[q].index < n
  BY <1>1, NextEntries
<1>6. entry' \in [Procs -> Block \cup {None}]
  <2>1. entry \in [Procs -> Block \cup {None}]
    BY DEF FilesTyped
  <2>2. entry' = entry \/ \E p \in Procs : \E e : entry' = [entry EXCEPT ![p] = e]
    <3>1. ASSUME NEW p \in Procs,
             \/ \E t \in Tokens : VerifyRead(p, t)
             \/ \E d \in Duals : PreDeployBegin(p, d)
             \/ VerifyUpdate(p) \/ LockBegin(p) \/ AcquireDeployLock(p) \/ ReleaseDeployLock(p)
             \/ AppendRead(p) \/ AppendWrite(p) \/ Commit(p) \/ Rollback(p)
             \/ Flush(p) \/ FlushFails(p) \/ Crash(p)
          PROVE  entry' = entry \/ \E e : entry' = [entry EXCEPT ![p] = e]
      BY <3>1 DEF VerifyRead, PreDeployBegin, VerifyUpdate, LockBegin, AcquireDeployLock,
         ReleaseDeployLock, AppendRead, AppendWrite, Commit, Rollback, Flush, FlushFails, Crash,
         Ends, proc
    <3>2. ASSUME \/ \E d \in Duals : RequestDual(d)
                 \/ \E t \in Tokens : RevokeToken(t)
                 \/ Tick \/ UNCHANGED vars
          PROVE  entry' = entry
      BY <3>2 DEF RequestDual, RevokeToken, Tick, vars, proc
    <3> QED BY <3>1, <3>2 DEF Next
  <2>3. DOMAIN entry' = Procs /\ entry' = [q \in Procs |-> entry'[q]]
    BY <2>1, <2>2
  <2> QED BY <1>5, <2>3
<1>7. cut' \in BOOLEAN
  BY CutTyped DEF FilesTyped
<1> QED BY <1>1, <1>2, <1>3, <1>4, <1>5, <1>6, <1>7 DEF FilesTyped

LEMMA NextLockTyped == TokensInv /\ LockTyped /\ [Next]_vars => LockTyped'
<1> SUFFICES ASSUME TokensInv, LockTyped, [Next]_vars PROVE LockTyped'
  OBVIOUS
<1>1. /\ clock \in Times /\ 0 \in Times /\ 0 \in 0..(MaxTime + TTL)
      /\ \A t \in Times : t + TTL \in 0..(MaxTime + TTL)
  <2>1. TTL \in Nat /\ MaxTime \in Nat
    BY TtlAssumption
  <2> QED BY <2>1 DEF TokensInv, TokensTyped, Times
<1>2. /\ lock \in [holder: Procs, exp: 0..(MaxTime + TTL)] \cup {None}
      /\ now \in [Procs -> Times] /\ holds \in [Procs -> 0..(MaxTime + TTL)]
  BY DEF LockTyped
<1>3. ASSUME NEW p \in Procs,
             \/ \E t \in Tokens : VerifyRead(p, t)
             \/ \E d \in Duals : PreDeployBegin(p, d)
             \/ VerifyUpdate(p) \/ LockBegin(p) \/ AcquireDeployLock(p) \/ ReleaseDeployLock(p)
             \/ AppendRead(p) \/ AppendWrite(p) \/ Commit(p) \/ Rollback(p)
             \/ Flush(p) \/ FlushFails(p) \/ Crash(p)
      PROVE  LockTyped'
  <2>1. now' = now \/ now' = [now EXCEPT ![p] = 0] \/ now' = [now EXCEPT ![p] = clock]
    BY <1>3 DEF VerifyRead, PreDeployBegin, VerifyUpdate, LockBegin, AcquireDeployLock,
       ReleaseDeployLock, AppendRead, AppendWrite, Commit, Rollback, Flush, FlushFails, Crash,
       Ends, ReadsClock, proc
  <2>2. TakeLock(p) \/ UNCHANGED <<lock, holds>> \/ (lock' = None /\ holds' = [holds EXCEPT ![p] = 0])
    BY <1>3 DEF VerifyRead, PreDeployBegin, VerifyUpdate, LockBegin, AcquireDeployLock,
       ReleaseDeployLock, AppendRead, AppendWrite, Commit, Rollback, Flush, FlushFails, Crash,
       db, hist
  <2>3. now' \in [Procs -> Times]
    BY <1>1, <1>2, <2>1
  <2>4. now[p] + TTL \in 0..(MaxTime + TTL)
    BY <1>1, <1>2
  <2> QED BY <1>1, <1>2, <2>2, <2>3, <2>4 DEF TakeLock, LockTyped
<1>4. CASE \/ \E d \in Duals : RequestDual(d)
           \/ \E t \in Tokens : RevokeToken(t)
           \/ UNCHANGED vars
  BY <1>2, <1>4 DEF RequestDual, RevokeToken, vars, proc, db, hist, LockTyped
<1>5. CASE Tick
  BY <1>1, <1>2, <1>5 DEF Tick, db, proc, LockTyped
<1> QED BY <1>3, <1>4, <1>5 DEF Next

GateTyped == TokensInv /\ LockTyped /\ FilesTyped

LEMMA GateInvariant == Spec => []GateTyped
<1>1. Init => GateTyped
  <2> SUFFICES ASSUME Init PROVE GateTyped
    OBVIOUS
  <2>1. LockTyped
    BY TtlAssumption DEF Init, LockTyped, Times
  <2>2. appends \in 0..MaxAppends /\ chain \in [Indices -> Duals \cup {None}]
    BY TtlAssumption DEF Init
  <2>3. jsonl \in Seq(Line) /\ DOMAIN jsonl = {}
    BY DEF Init
  <2>4. entry \in [Procs -> Block \cup {None}] /\ \A p \in Procs : ~Staged(p)
    BY DEF Init, Staged
  <2>5. cut \in BOOLEAN
    BY DEF Init
  <2> QED BY <2>1, <2>2, <2>3, <2>4, <2>5, TokensInit DEF GateTyped, FilesTyped
<1>2. GateTyped /\ [Next]_vars => GateTyped'
  BY TokensNext, NextFilesTyped, NextLockTyped DEF GateTyped
<1> QED BY <1>1, <1>2, PTL DEF Spec

\* Every variable stays in its type: above all, no block's index runs ahead of
\* the approvals used and the calls of append.
THEOREM GateStaysTyped == Spec => []TypeOK
<1>1. GateTyped => TypeOK
  BY DEF GateTyped, TokensInv, TokensTyped, LockTyped, FilesTyped, TypeOK, Line, Places
<1> QED BY GateInvariant, <1>1, PTL

-----------------------------------------------------------------------------
(* The audit chain *)

Clean == appends = 0 /\ \A i \in DOMAIN jsonl : jsonl[i] \notin {Torn, Garbled}

Linked(l, c) ==
  \A i \in DOMAIN l :
    /\ l[i].index = i - 1 /\ l[i].id = c[i-1]
    /\ l[i].prev = IF i = 1 THEN None ELSE l[i-1].id

\* The block that continues a file.
Continues(l, id) ==
  [index |-> Len(l), prev |-> IF l = <<>> THEN None ELSE l[Len(l)].id, id |-> id]

\* At most one block is committed and not yet in the file, and it is the one
\* that continues it: its row keeps every other commit from the same index.
OneToFlush ==
  /\ \A p \in Procs : pc[p] = "flush" =>
       /\ entry[p] = Continues(jsonl, chain[Len(jsonl)])
       /\ chain[Len(jsonl)] # None
  /\ \A p, q \in Procs : pc[p] = "flush" /\ pc[q] = "flush" => p = q
  /\ \A p \in Procs : pc[p] # "append"

ChainInv == Clean => Linked(jsonl, chain) /\ OneToFlush

LEMMA BlockIsNotNone == \A b \in Block : b # None
<1>1. \A b \in Block : b \in [index: Nat, prev: Duals \cup Nat \cup {None}, id: Duals \cup Nat]
  <2>1. Indices \subseteq Nat
    BY TtlAssumption DEF Indices
  <2>2. EntryId \subseteq Duals \cup Nat
    BY TtlAssumption DEF EntryId
  <2> QED BY <2>1, <2>2 DEF Block
<1> QED BY <1>1, NoneAssumption

LEMMA NextBlockContinues ==
  ASSUME FilesTyped, Clean, Linked(jsonl, chain), NEW id
  PROVE  NextBlock(id) = Continues(jsonl, id)
<1>1. CASE jsonl = <<>>
  <2>1. LastEntry = None /\ Len(jsonl) = 0
    BY <1>1 DEF LastEntry
  <2> QED BY <1>1, <2>1 DEF NextBlock, Continues
<1>2. CASE jsonl # <<>>
  <2>1. /\ Len(jsonl) \in DOMAIN jsonl /\ Last(jsonl) = jsonl[Len(jsonl)]
        /\ Last(jsonl) \in Line
    BY <1>2, LastTyped DEF FilesTyped
  <2>2. Last(jsonl) \notin {Torn, Garbled} /\ Last(jsonl) \in Block
    BY <2>1, LineTyped DEF Clean
  <2>3. LastEntry = jsonl[Len(jsonl)] /\ LastEntry # None
    BY <1>2, <2>1, <2>2, BlockIsNotNone DEF LastEntry
  <2>4. LastEntry.index = Len(jsonl) - 1 /\ Len(jsonl) \in Nat
    BY <2>1, <2>3 DEF Linked, FilesTyped
  <2>5. LastEntry.index + 1 = Len(jsonl)
    BY <2>4
  <2> QED BY <1>2, <2>3, <2>5 DEF NextBlock, Continues
<1> QED BY <1>1, <1>2

\* A clean file has been clean all along, and grows by flushes alone.
LEMMA CleanSteps ==
  ASSUME FilesTyped, [Next]_vars, Clean'
  PROVE  /\ Clean
         /\ jsonl' = jsonl \/ \E p \in Procs : /\ Flush(p) \/ FlushFails(p) \/ AppendWrite(p)
                                               /\ jsonl' = Append(jsonl, entry[p])
<1>1. jsonl \in Seq(Line)
  BY DEF FilesTyped
<1>2. appends = 0
  <2>1. appends' = 0 /\ appends <= appends' /\ appends \in Nat
    BY AppendsTyped DEF Clean, FilesTyped
  <2> QED BY <2>1
<1>3. ASSUME NEW l \in Seq(Line), NEW e \in {Torn, Garbled}, jsonl' = Append(l, e) PROVE FALSE
  <2>1. e \in Line
    BY DEF Line
  <2>2. Len(l) + 1 \in DOMAIN jsonl' /\ jsonl'[Len(l) + 1] = e
    <3>1. /\ DOMAIN Append(l, e) = 1..(Len(l) + 1) /\ Append(l, e)[Len(l) + 1] = e
          /\ Len(l) \in Nat
      BY <2>1, AppendProperties, LenProperties
    <3>2. Len(l) + 1 \in 1..(Len(l) + 1)
      BY <3>1
    <3> QED BY <1>3, <3>1, <3>2
  <2> QED BY <2>2 DEF Clean
<1>4. \/ jsonl' = jsonl \/ jsonl' = Append(jsonl, Torn)
      \/ jsonl' = Append(Front(jsonl), Torn) \/ jsonl' = Append(Front(jsonl), Garbled)
      \/ \E p \in Procs : /\ Flush(p) \/ FlushFails(p) \/ AppendWrite(p)
                          /\ jsonl' = Append(jsonl, entry[p])
  <2>1. ASSUME NEW p \in Procs, AppendWrite(p) \/ Flush(p) \/ FlushFails(p)
        PROVE  \/ jsonl' = jsonl \/ jsonl' = Append(jsonl, Torn)
               \/ jsonl' = Append(Front(jsonl), Torn) \/ jsonl' = Append(Front(jsonl), Garbled)
               \/ jsonl' = Append(jsonl, entry[p])
    BY <2>1 DEF AppendWrite, Flush, FlushFails, Write, WriteFails, file
  <2>3. ASSUME NEW p \in Procs,
             \/ \E t \in Tokens : VerifyRead(p, t)
             \/ \E d \in Duals : PreDeployBegin(p, d)
             \/ VerifyUpdate(p) \/ LockBegin(p) \/ AcquireDeployLock(p) \/ ReleaseDeployLock(p)
             \/ AppendRead(p) \/ Commit(p) \/ Rollback(p) \/ Crash(p)
        PROVE  jsonl' = jsonl
    BY <2>3 DEF VerifyRead, PreDeployBegin, VerifyUpdate, LockBegin, AcquireDeployLock,
       ReleaseDeployLock, AppendRead, Commit, Rollback, Crash, file
  <2>4. ASSUME \/ \E d \in Duals : RequestDual(d)
               \/ \E t \in Tokens : RevokeToken(t)
               \/ Tick \/ UNCHANGED vars
        PROVE  jsonl' = jsonl
    BY <2>4 DEF RequestDual, RevokeToken, Tick, vars, file
  <2> QED BY <2>1, <2>3, <2>4 DEF Next
<1>5. \/ jsonl' = jsonl
      \/ \E p \in Procs : /\ Flush(p) \/ FlushFails(p) \/ AppendWrite(p)
                          /\ jsonl' = Append(jsonl, entry[p])
  BY <1>1, <1>3, <1>4, FrontKeeps
<1>6. ASSUME NEW p \in Procs, Flush(p) \/ FlushFails(p) \/ AppendWrite(p),
             jsonl' = Append(jsonl, entry[p])
      PROVE  \A i \in DOMAIN jsonl : jsonl[i] \notin {Torn, Garbled}
  <2>1. entry[p] \in Line
    BY <1>6 DEF Flush, FlushFails, AppendWrite, FilesTyped, Staged, Line
  <2>2. \A i \in DOMAIN jsonl : i \in DOMAIN jsonl' /\ jsonl'[i] = jsonl[i]
    BY <1>1, <1>6, <2>1, AppendProperties, LenProperties
  <2> QED BY <2>2 DEF Clean
<1>7. \A i \in DOMAIN jsonl : jsonl[i] \notin {Torn, Garbled}
  BY <1>5, <1>6 DEF Clean
<1> QED BY <1>2, <1>5, <1>7 DEF Clean

LEMMA LinkedAppend ==
  ASSUME NEW l \in Seq(Line), NEW c, Linked(l, c), NEW e \in Line,
         e = Continues(l, c[Len(l)])
  PROVE  Linked(Append(l, e), c)
<1> DEFINE a == Append(l, e)
<1>1. /\ a \in Seq(Line) /\ DOMAIN a = 1..(Len(l) + 1) /\ DOMAIN l = 1..Len(l)
      /\ Len(l) \in Nat /\ \A i \in 1..Len(l) : a[i] = l[i]
      /\ a[Len(l) + 1] = e
  BY AppendProperties, LenProperties
<1>2. \A i \in DOMAIN a : i \in DOMAIN l \/ i = Len(l) + 1
  BY <1>1
<1>3. l = <<>> <=> Len(l) = 0
  BY EmptySeq
<1> HIDE DEF a
<1>4. ASSUME NEW i \in DOMAIN l
      PROVE  /\ a[i].index = i - 1 /\ a[i].id = c[i-1]
             /\ a[i].prev = IF i = 1 THEN None ELSE a[i-1].id
  <2>1. a[i] = l[i] /\ (i # 1 => i - 1 \in DOMAIN l /\ a[i-1] = l[i-1])
    BY <1>1
  <2> QED BY <2>1 DEF Linked
<1>5. DEFINE n == Len(l) + 1
<1>6. n - 1 = Len(l) /\ (n = 1 <=> l = <<>>) /\ (n # 1 => a[n - 1] = l[Len(l)])
  BY <1>1, <1>3
<1>7. /\ a[n].index = n - 1 /\ a[n].id = c[n - 1]
      /\ a[n].prev = IF n = 1 THEN None ELSE a[n - 1].id
  BY <1>1, <1>6 DEF Continues
<1>8. Linked(a, c)
  BY <1>2, <1>4, <1>7 DEF Linked
<1> QED BY <1>8 DEF a

LEMMA NextChainInv == GateTyped /\ ChainInv /\ [Next]_vars => ChainInv'
<1> SUFFICES ASSUME GateTyped, ChainInv, [Next]_vars, Clean'
             PROVE  Linked(jsonl', chain') /\ OneToFlush'
  BY DEF ChainInv
<1>1. TokensInv /\ FilesTyped /\ pc \in [Procs -> Places] /\ jsonl \in Seq(Line)
      /\ chain \in [Indices -> Duals \cup {None}]
  BY DEF GateTyped, TokensInv, TokensTyped, FilesTyped
<1>2. Clean /\ Linked(jsonl, chain) /\ OneToFlush
  BY <1>1, CleanSteps DEF ChainInv
<1>3. ASSUME NEW q \in Procs
      PROVE  /\ pc'[q] # "append"
             /\ pc'[q] = "flush" => \/ pc[q] = "flush" /\ entry'[q] = entry[q]
                                    \/ Commit(q) /\ entry'[q] = NextBlock(what[q])
  <2>1. ~AppendRead(q)
    BY <1>1, <1>2, AppendsTyped DEF Clean
  <2> QED BY <1>1, <1>2, <2>1, EntrySteps DEF Staged, OneToFlush
<1>4. ASSUME NEW p \in Procs, Flush(p) \/ FlushFails(p) \/ AppendWrite(p),
             jsonl' = Append(jsonl, entry[p])
      PROVE  Linked(jsonl', chain') /\ OneToFlush'
  <2>1. /\ pc[p] = "flush" /\ chain' = chain
        /\ pc' = [pc EXCEPT ![p] = "idle"] \/ pc' = [pc EXCEPT ![p] = "except"]
    BY <1>2, <1>4 DEF Flush, FlushFails, AppendWrite, OneToFlush, Ends, db
  <2>2. entry[p] = Continues(jsonl, chain[Len(jsonl)])
    BY <1>2, <2>1 DEF OneToFlush
  <2>3. entry[p] \in Line
    BY <1>1, <2>1 DEF FilesTyped, Staged, Line
  <2>4. Linked(jsonl', chain')
    BY <1>1, <1>2, <1>4, <2>1, <2>2, <2>3, LinkedAppend
  <2>5. \A q \in Procs : pc'[q] # "flush"
    BY <1>1, <1>2, <2>1 DEF OneToFlush
  <2> QED BY <1>3, <2>4, <2>5 DEF OneToFlush
<1>5. ASSUME NEW p \in Procs, Commit(p), jsonl' = jsonl
      PROVE  Linked(jsonl', chain') /\ OneToFlush'
  <2> DEFINE n == Len(jsonl)
             d == what[p]
  <2>1. d \in Duals /\ d # None
    BY <1>1, <1>5, NoneAssumption DEF Commit, TokensInv, TransactsADual
  <2>2. NextBlock(d) = Continues(jsonl, d)
    BY <1>1, <1>2, NextBlockContinues
  <2>3. NextBlock(d).index = n /\ NextBlock(d) \in Block
    <3>1. d \in EntryId
      BY <2>1 DEF EntryId
    <3> QED BY <1>1, <2>2, <3>1, NextBlockTyped DEF Continues
  <2>4. n \in Indices /\ chain[n] = None /\ chain' = [chain EXCEPT ![n] = d]
        /\ pc' = [pc EXCEPT ![p] = "flush"]
    BY <1>5, <2>3 DEF Commit, NewIndex, Block
  <2>5. chain'[n] = d /\ \A i \in Indices \ {n} : chain'[i] = chain[i]
    BY <1>1, <2>4
  <2>6. Linked(jsonl', chain')
    <3>1. \A i \in DOMAIN jsonl : i - 1 # n /\ i - 1 \in Indices
      <4>1. \A i \in DOMAIN jsonl : i \in 1..n /\ n \in Nat
        BY <1>1
      <4>2. PICK m \in Nat : Indices = 0..m
        <5>1. Cardinality(Duals) + MaxAppends \in Nat
          BY DualsAssumption, TtlAssumption, FS_CardinalityType
        <5> QED BY <5>1 DEF Indices
      <4>3. n \in 0..m
        BY <2>4, <4>2
      <4> HIDE DEF n
      <4>4. \A i \in DOMAIN jsonl : i - 1 # n /\ i - 1 \in 0..m
        BY <4>1, <4>3
      <4> QED BY <4>2, <4>4
    <3>2. \A i \in DOMAIN jsonl : chain'[i-1] = chain[i-1]
      BY <2>5, <3>1
    <3> QED BY <1>2, <1>5, <3>2 DEF Linked
  <2>7. \A q \in Procs : pc[q] # "flush"
    BY <1>2, <2>4 DEF OneToFlush
  <2>8. \A q \in Procs : pc'[q] = "flush" => q = p
    BY <1>1, <2>4, <2>7
  <2>9. pc'[p] = "flush" => entry'[p] = Continues(jsonl, d)
    BY <1>3, <2>2, <2>7
  <2> QED BY <1>3, <1>5, <2>1, <2>5, <2>6, <2>8, <2>9 DEF OneToFlush
<1>6. ASSUME \A p \in Procs : ~Commit(p), jsonl' = jsonl
      PROVE  Linked(jsonl', chain') /\ OneToFlush'
  <2>1. chain' = chain
    BY <1>6, ChainSteps
  <2>2. \A q \in Procs : pc'[q] = "flush" => pc[q] = "flush" /\ entry'[q] = entry[q]
    BY <1>3, <1>6
  <2> QED BY <1>2, <1>3, <1>6, <2>1, <2>2 DEF OneToFlush
<1> QED BY <1>1, <1>4, <1>5, <1>6, CleanSteps

\* Nobody calls append, and no write was cut off: the chain in the file then
\* verifies and agrees with audit_chain, whoever commits while others have
\* blocks still to flush.
THEOREM ChainStaysIntact == Spec => []ChainIntact
<1>1. Init => ChainInv
  BY DEF Init, ChainInv, Linked, OneToFlush
<1>2. ChainInv => ChainIntact
  BY DEF ChainInv, ChainIntact, Clean, Linked, VerifyChain, ToSet
<1> QED BY <1>1, <1>2, GateInvariant, NextChainInv, PTL DEF Spec
=============================================================================
