------------------------ MODULE LeaseManager_proofs ------------------------
(***************************************************************************)
(* The safety of the lease table for every set of processes, resources and *)
(* tokens, every ttl_sec and every delay of a clock reading.               *)
(***************************************************************************)
EXTENDS LeaseManager, TLAPS

(* A call that inserts or holds has a resource; a bare purge has none.     *)
WantsResource ==
  \A p \in Procs : pc[p] \in Holding \cup {"enter", "insert", "retry", "reinsert"}
                     => want[p] \in Resources

TypeInv == TypeOK /\ WantsResource

LEMMA TypeInit == Init => TypeInv
  BY NoneAssumption DEF Init, TypeInv, TypeOK, WantsResource, Holding

(* Returning from a call clears its locals and keeps their types.          *)
LEMMA ReturnTyped ==
  ASSUME TypeInv, NEW p \in Procs, Return(p),
         leases' \subseteq Row, orphans' \subseteq Tokens,
         UNCHANGED <<stopFlags, hbVars>>
  PROVE  TypeInv'
BY DEF TypeInv, TypeOK, WantsResource, Holding, Return, Goto, hbVars

LEMMA TypeNext == TypeInv /\ [Next]_vars => TypeInv'
<1> SUFFICES ASSUME TypeInv, [Next]_vars PROVE TypeInv'
  OBVIOUS
<1> USE TTLAssumption, DelayAssumption, NoneAssumption DEF TypeInv, TypeOK, WantsResource, Holding
<1>1. ASSUME NEW p \in Procs, NEW r \in Resources, Begin(p, r) PROVE TypeInv'
  BY <1>1 DEF Begin, Goto, hbVars
<1>2. ASSUME NEW p \in Procs, Purge(p) PROVE TypeInv'
  BY <1>2 DEF Purge, Goto, hbVars
<1>3. ASSUME NEW p \in Procs, ReadNow(p) PROVE TypeInv'
  BY <1>3 DEF ReadNow, Goto, hbVars
<1>4. ASSUME NEW p \in Procs, TryInsert(p) PROVE TypeInv'
  <2> PICK t \in Fresh :
           /\ leases' = leases \cup
                {[tok |-> t, res |-> want[p], holder |-> p, left |-> TTL - age[p]]}
           /\ mine' = [mine EXCEPT ![p] = t]
    BY <1>4 DEF TryInsert
  <2>1. want[p] \in Resources /\ TTL - age[p] \in Int /\ t \in Tokens
    BY <1>4 DEF TryInsert, Fresh
  <2>2. leases' \subseteq Row
    BY <2>1 DEF Row
  <2>3. (TTL < age[p]) \in BOOLEAN
    OBVIOUS
  <2> QED
    BY <1>4, <2>1, <2>2, <2>3 DEF TryInsert, Goto, hbVars
<1>5. ASSUME NEW p \in Procs, InsertConflict(p) PROVE TypeInv'
  <2>1. CASE pc[p] = "insert"
    BY <1>5, <2>1 DEF InsertConflict, Goto, hbVars
  <2>2. CASE pc[p] = "reinsert"
    <3>1. Return(p) /\ UNCHANGED <<leases, orphans>> /\ UNCHANGED <<stopFlags, hbVars>>
      BY <1>5, <2>2 DEF InsertConflict
    <3> QED
      BY <3>1, ReturnTyped
  <2> QED
    BY <1>5, <2>1, <2>2 DEF InsertConflict
<1>6. ASSUME NEW p \in Procs, CheckToken(p) PROVE TypeInv'
  BY <1>6 DEF CheckToken, Goto
<1>7. ASSUME NEW p \in Procs, CheckMissing(p) PROVE TypeInv'
  <2>1. CASE pc[p] = "check"
    BY <1>7, <2>1 DEF CheckMissing, Goto, hbVars
  <2>2. CASE pc[p] = "recheck"
    <3>1. Return(p) /\ UNCHANGED <<leases, orphans>> /\ UNCHANGED <<stopFlags, hbVars>>
      BY <1>7, <2>2 DEF CheckMissing
    <3> QED
      BY <3>1, ReturnTyped
  <2> QED
    BY <1>7, <2>1, <2>2 DEF CheckMissing
<1>8. ASSUME NEW p \in Procs, SelectStale(p) PROVE TypeInv'
  <2>1. StaleIds(p) \subseteq Tokens
    BY DEF StaleIds, TokensOf, Row
  <2>2. CASE StaleIds(p) = {}
    <3>1. Return(p) /\ UNCHANGED <<leases, orphans>> /\ UNCHANGED <<stopFlags, hbVars>>
      BY <1>8, <2>2 DEF SelectStale
    <3> QED
      BY <3>1, ReturnTyped
  <2>3. CASE StaleIds(p) # {}
    BY <1>8, <2>1, <2>3 DEF SelectStale, Goto, hbVars
  <2> QED
    BY <2>2, <2>3
<1>9. ASSUME NEW p \in Procs, DeleteStale(p) PROVE TypeInv'
  <2>1. leases' \subseteq Row /\ orphans' \subseteq Tokens
    BY <1>9 DEF DeleteStale
  <2>2. CASE want[p] = None
    <3>1. Return(p) /\ UNCHANGED <<stopFlags, hbVars>>
      BY <1>9, <2>2 DEF DeleteStale
    <3> QED
      BY <2>1, <3>1, ReturnTyped
  <2>3. CASE want[p] # None
    BY <1>9, <2>1, <2>3 DEF DeleteStale, Goto, hbVars
  <2> QED
    BY <2>2, <2>3
<1>10. ASSUME NEW p \in Procs, Release(p) PROVE TypeInv'
  BY <1>10 DEF Release, Goto, Return, hbVars
<1>11. ASSUME NEW p \in Procs, HeartbeatRead(p) PROVE TypeInv'
  BY <1>11 DEF HeartbeatRead, mainVars
<1>12. ASSUME NEW p \in Procs, HeartbeatWrite(p) PROVE TypeInv'
  <2>1. TTL - hbAge[p] \in Int
    OBVIOUS
  <2>2. Renewed(p) \subseteq Row
    BY <2>1 DEF Renewed, Row
  <2>3. lapsed' \in [Procs -> BOOLEAN]
    BY <1>12 DEF HeartbeatWrite
  <2> QED
    BY <1>12, <2>2, <2>3 DEF HeartbeatWrite, HeartbeatOff, mainVars
<1>13. ASSUME NEW p \in Procs, HeartbeatError(p) PROVE TypeInv'
  BY <1>13 DEF HeartbeatError, HeartbeatOff, mainVars
<1>14. ASSUME NEW p \in Procs, EndFunc(p) PROVE TypeInv'
  BY <1>14 DEF EndFunc, HeartbeatOff, Goto, hbVars
<1>15. ASSUME NEW p \in Procs, Crash(p) PROVE TypeInv'
  <2>1. orphans' \subseteq Tokens
    BY <1>15 DEF Crash, TokensOf, Row
  <2> QED
    BY <1>15, <2>1 DEF Crash, Return, Goto, HeartbeatOff
<1>16. ASSUME NEW r \in Resources, RaiseStop(r) \/ ClearStop(r) PROVE TypeInv'
  BY <1>16 DEF RaiseStop, ClearStop, mainVars, hbVars
<1>17. ASSUME Tick PROVE TypeInv'
  <2>1. leases' \subseteq Row
    BY <1>17 DEF Tick, Row, Older
  <2>2. age' \in [Procs -> Nat] /\ hbAge' \in [Procs -> Nat]
    BY <1>17 DEF Tick
  <2>3. lapsed' \in [Procs -> BOOLEAN]
    BY <1>17, Zenon DEF Tick
  <2> QED
    BY <1>17, <2>1, <2>2, <2>3 DEF Tick
<1>18. ASSUME UNCHANGED vars PROVE TypeInv'
  BY <1>18 DEF vars
<1> QED
  BY <1>1, <1>2, <1>3, <1>4, <1>5, <1>6, <1>7, <1>8, <1>9, <1>10, <1>11, <1>12,
     <1>13, <1>14, <1>15, <1>16, <1>17, <1>18 DEF Next, Advance

(* The table, the calls and the heartbeat threads have their types.        *)
THEOREM TypeCorrect == Spec => []TypeOK
<1>1. Spec => []TypeInv
  BY TypeInit, TypeNext, PTL DEF Spec
<1> QED
  BY <1>1, PTL DEF TypeInv

-----------------------------------------------------------------------------
(***************************************************************************)
(* The inductive invariant.  OneRowPerResource and NeverLapsedKeepsRow are *)
(* not inductive: why a late DELETE spares a lease that was never expired  *)
(* is that a selected id was expired when it was selected (StaleLapsed),   *)
(* that an id stands for one lease (UniqueToken, MineDistinct) and that    *)
(* nobody's heartbeat renews the lease of another process (OwnHeartbeat).  *)
(***************************************************************************)
UniqueToken == \A l, m \in leases : l.tok = m.tok => l = m

MineDistinct == \A p, q \in Procs : mine[p] # None /\ mine[p] = mine[q] => p = q

MineWhileHolding == \A p \in Procs : pc[p] \in Holding <=> mine[p] # None

OwnHeartbeat == \A p, q \in Procs : hbTok[p] # None /\ hbTok[p] = mine[q] => p = q

RowOfHolder == \A l \in leases, p \in Procs : l.tok = mine[p] => l.res = want[p]

StaleLapsed == \A p, q \in Procs : mine[p] \in stale[q] => lapsed[p]

LiveUnlessLapsed ==
  \A l \in leases, p \in Procs : l.tok = mine[p] /\ ~lapsed[p] => l.left >= 0

IInv ==
  /\ TypeInv
  /\ OneRowPerResource /\ UniqueToken /\ RowOfHolder
  /\ MineDistinct /\ MineWhileHolding /\ OwnHeartbeat
  /\ NeverLapsedKeepsRow /\ StaleLapsed /\ LiveUnlessLapsed
  /\ NoLeakedRow

LEMMA IInvInit == Init => IInv
  BY TypeInit, NoneAssumption
  DEF Init, IInv, OneRowPerResource, UniqueToken, RowOfHolder, MineDistinct, MineWhileHolding,
      OwnHeartbeat, NeverLapsedKeepsRow, StaleLapsed, LiveUnlessLapsed, NoLeakedRow, Holding

(* Returning a call that owns no row leaves every row with its owner.      *)
LEMMA ReturnKeeps ==
  ASSUME IInv, TypeInv', NEW p \in Procs, Return(p),
         UNCHANGED <<leases, hbVars, orphans>>, mine[p] \notin TokensOf(leases)
  PROVE  IInv'
BY NoneAssumption
DEF IInv, TypeInv, TypeOK, OneRowPerResource, UniqueToken, RowOfHolder, MineDistinct,
    MineWhileHolding, OwnHeartbeat, NeverLapsedKeepsRow, StaleLapsed, LiveUnlessLapsed,
    NoLeakedRow, Holding, Return, Goto, hbVars, TokensOf, Row

(* A row that is written or renewed with a stale clock value, and one that *)
(* ages past its end, marks its holder as lapsed.                          *)
LEMMA LapsedAtInsert ==
  ASSUME TypeInv, NEW p \in Procs, TryInsert(p), TTL < age[p]
  PROVE  lapsed'[p]
BY Zenon DEF TypeInv, TypeOK, TryInsert

LEMMA LapsedAtHeartbeat ==
  ASSUME TypeInv, NEW p \in Procs, HeartbeatWrite(p), mine[p] # None, TTL < hbAge[p]
  PROVE  lapsed'[p]
BY Zenon DEF TypeInv, TypeOK, HeartbeatWrite

LEMMA LapsedAtTick ==
  ASSUME TypeInv, NEW p \in Procs, Tick, NEW l \in leases', l.tok = mine[p], IsExpired(l)
  PROVE  lapsed'[p]
BY Zenon DEF TypeInv, TypeOK, Tick

(* A heartbeat and the passing of time change no row but its time left:    *)
(* the conjuncts that speak of tokens, resources and holders survive both. *)
SameRow(l, m) == l.tok = m.tok /\ l.res = m.res /\ l.holder = m.holder

SameRows ==
  /\ \A l \in leases' : \E m \in leases : SameRow(l, m)
  /\ \A m \in leases : \E l \in leases' : SameRow(l, m)
  /\ \A l, k \in leases' : l.tok = k.tok \/ l.res = k.res =>
       \E m, n \in leases : SameRow(l, m) /\ SameRow(k, n) /\ (m = n => l = k)

LEMMA RenewedRows ==
  ASSUME TypeInv, NEW p \in Procs, leases' = Renewed(p)
  PROVE  /\ SameRows
         /\ \A l \in leases' : \E m \in leases :
              /\ l.tok = m.tok
              /\ m.tok = hbTok[p] => l.left = TTL - hbAge[p]
              /\ m.tok # hbTok[p] => l.left = m.left
<1> DEFINE R(m) == IF m.tok = hbTok[p] THEN [m EXCEPT !.left = TTL - hbAge[p]] ELSE m
<1>1. leases' = {R(m) : m \in leases}
  BY DEF Renewed
<1>2. \A m \in leases : /\ SameRow(R(m), m)
                        /\ m.tok = hbTok[p] => R(m).left = TTL - hbAge[p]
                        /\ m.tok # hbTok[p] => R(m).left = m.left
  BY DEF SameRow, TypeInv, TypeOK, Row
<1> HIDE DEF R
<1>3. SameRows
  BY <1>1, <1>2 DEF SameRows
<1>4. \A m \in leases : R(m).tok = m.tok
  BY <1>2 DEF SameRow
<1> QED
  BY <1>1, <1>2, <1>3, <1>4

LEMMA AgedRows ==
  ASSUME TypeInv, leases' = {[l EXCEPT !.left = Older(@)] : l \in leases}
  PROVE  SameRows
<1> DEFINE R(m) == [m EXCEPT !.left = Older(m.left)]
<1>1. leases' = {R(m) : m \in leases}
  OBVIOUS
<1>2. \A m \in leases : SameRow(R(m), m)
  BY DEF SameRow, TypeInv, TypeOK, Row
<1> HIDE DEF R
<1> QED
  BY <1>1, <1>2 DEF SameRows

LEMMA SameRowsKeep ==
  ASSUME IInv, TypeInv', SameRows, UNCHANGED <<mine, want, stale, pc, orphans>>,
         \A q \in Procs : lapsed[q] => lapsed'[q],
         \A q \in Procs : hbTok'[q] \in {hbTok[q], None}
  PROVE  /\ OneRowPerResource' /\ UniqueToken' /\ RowOfHolder' /\ NoLeakedRow'
         /\ MineDistinct' /\ MineWhileHolding' /\ OwnHeartbeat'
         /\ NeverLapsedKeepsRow' /\ StaleLapsed'
<1>1. OneRowPerResource' /\ UniqueToken'
  BY DEF IInv, SameRows, SameRow, OneRowPerResource, UniqueToken
<1>2. RowOfHolder'
  BY DEF IInv, SameRows, SameRow, RowOfHolder
<1>5. NoLeakedRow'
  <2> SUFFICES ASSUME NEW l \in leases' PROVE l.tok \in orphans \/ mine[l.holder] = l.tok
    BY DEF NoLeakedRow
  <2>1. PICK m \in leases : SameRow(l, m)
    BY DEF SameRows
  <2> QED
    BY <2>1 DEF IInv, NoLeakedRow, SameRow
<1>3. MineDistinct' /\ MineWhileHolding' /\ OwnHeartbeat'
  BY DEF IInv, MineDistinct, MineWhileHolding, OwnHeartbeat
<1>4. StaleLapsed'
  BY DEF IInv, StaleLapsed
<1>6. NeverLapsedKeepsRow'
  <2> SUFFICES ASSUME NEW p \in Procs, pc[p] \in Holding, ~lapsed'[p]
               PROVE  \E l \in leases' : l.tok = mine[p] /\ l.res = want[p]
    BY DEF NeverLapsedKeepsRow
  <2>1. PICK m \in leases : m.tok = mine[p] /\ m.res = want[p]
    BY DEF IInv, NeverLapsedKeepsRow
  <2>2. PICK l \in leases' : SameRow(l, m)
    BY DEF SameRows
  <2> QED
    BY <2>1, <2>2 DEF SameRow
<1> QED
  BY <1>1, <1>2, <1>3, <1>4, <1>5, <1>6

LEMMA HeartbeatKeeps ==
  ASSUME IInv, TypeInv', NEW p \in Procs, HeartbeatWrite(p)
  PROVE  IInv'
<1>1. TypeInv /\ leases' = Renewed(p) /\ UNCHANGED <<mine, want, stale, pc, orphans>>
  BY DEF IInv, HeartbeatWrite, mainVars
<1>2. \A q \in Procs : lapsed[q] => lapsed'[q]
  BY <1>1 DEF HeartbeatWrite, TypeInv, TypeOK
<1>3. \A q \in Procs : hbTok'[q] \in {hbTok[q], None}
  BY <1>1 DEF HeartbeatWrite, HeartbeatOff, TypeInv, TypeOK
<1>4. /\ SameRows
      /\ \A l \in leases' : \E m \in leases :
           /\ l.tok = m.tok
           /\ m.tok = hbTok[p] => l.left = TTL - hbAge[p]
           /\ m.tok # hbTok[p] => l.left = m.left
  BY <1>1, RenewedRows
<1>5. LiveUnlessLapsed'
  <2> SUFFICES ASSUME NEW l \in leases', NEW q \in Procs, l.tok = mine[q], ~lapsed'[q]
               PROVE  l.left >= 0
    BY <1>1 DEF LiveUnlessLapsed
  <2>1. PICK m \in leases : /\ l.tok = m.tok
                            /\ m.tok = hbTok[p] => l.left = TTL - hbAge[p]
                            /\ m.tok # hbTok[p] => l.left = m.left
    BY <1>4
  <2>2. CASE m.tok = hbTok[p]
    <3>1. mine[q] \in Tokens /\ hbTok[p] = mine[q]
      BY <1>1, <2>1, <2>2 DEF TypeInv, TypeOK, Row
    <3>2. p = q /\ mine[p] # None
      BY <3>1, NoneAssumption DEF IInv, OwnHeartbeat
    <3>3. ~(TTL < hbAge[p])
      BY <1>1, <3>2, LapsedAtHeartbeat
    <3> QED
      BY <1>1, <2>1, <2>2, <3>3, TTLAssumption DEF TypeInv, TypeOK
  <2>3. CASE m.tok # hbTok[p]
    BY <1>2, <2>1, <2>3 DEF IInv, LiveUnlessLapsed
  <2> QED
    BY <2>2, <2>3
<1> QED
  BY <1>1, <1>2, <1>3, <1>4, <1>5, SameRowsKeep DEF IInv

LEMMA TickKeeps ==
  ASSUME IInv, TypeInv', Tick
  PROVE  IInv'
<1>1. /\ TypeInv /\ UNCHANGED <<mine, want, stale, pc, orphans, hbTok>>
      /\ leases' = {[l EXCEPT !.left = Older(@)] : l \in leases}
  BY DEF IInv, Tick
<1>2. \A q \in Procs : lapsed[q] => lapsed'[q]
  BY <1>1 DEF Tick
<1>3. SameRows
  BY <1>1, AgedRows
<1>4. LiveUnlessLapsed'
  <2> SUFFICES ASSUME NEW l \in leases', NEW q \in Procs, l.tok = mine[q], ~lapsed'[q]
               PROVE  l.left >= 0
    BY <1>1 DEF LiveUnlessLapsed
  <2>1. ~IsExpired(l)
    BY <1>1, LapsedAtTick
  <2>2. l.left \in Int
    BY DEF TypeInv, TypeOK, Row
  <2> QED
    BY <2>1, <2>2 DEF IsExpired, ExpiredAt
<1> QED
  BY <1>1, <1>2, <1>3, <1>4, SameRowsKeep DEF IInv

LEMMA IInvNext == IInv /\ [Next]_vars => IInv'
<1> SUFFICES ASSUME IInv, [Next]_vars PROVE IInv'
  OBVIOUS
<1>0. TypeInv'
  BY TypeNext DEF IInv
<1> USE <1>0, NoneAssumption
    DEF IInv, TypeInv, TypeOK, OneRowPerResource, UniqueToken, RowOfHolder, MineDistinct,
        MineWhileHolding, OwnHeartbeat, NeverLapsedKeepsRow, StaleLapsed, LiveUnlessLapsed,
        NoLeakedRow, Holding
<1>1. ASSUME NEW p \in Procs, NEW r \in Resources, Begin(p, r) PROVE IInv'
  BY <1>1 DEF Begin, Goto, hbVars, Row
<1>2. ASSUME NEW p \in Procs, Purge(p) PROVE IInv'
  BY <1>2 DEF Purge, Goto, hbVars
<1>3. ASSUME NEW p \in Procs, ReadNow(p) PROVE IInv'
  BY <1>3 DEF ReadNow, Goto, hbVars
<1>4. ASSUME NEW p \in Procs, TryInsert(p) PROVE IInv'
  <2> PICK t \in Fresh :
           /\ leases' = leases \cup
                {[tok |-> t, res |-> want[p], holder |-> p, left |-> TTL - age[p]]}
           /\ mine' = [mine EXCEPT ![p] = t]
    BY <1>4 DEF TryInsert
  <2> DEFINE row == [tok |-> t, res |-> want[p], holder |-> p, left |-> TTL - age[p]]
  <2>1. /\ t \in Tokens /\ t # None
        /\ \A l \in leases : l.tok # t
        /\ \A q \in Procs : mine[q] # t /\ hbTok[q] # t /\ t \notin stale[q]
    BY DEF Fresh, TokensOf
  <2>2. \A l \in leases : l.res # want[p]
    BY <1>4 DEF TryInsert, CanInsert, RowsOf
  <2>3. /\ UNCHANGED <<want, stale, hb, hbTok, hbAge, orphans>>
        /\ lapsed' = [lapsed EXCEPT ![p] = TTL < age[p]]
        /\ mine[p] = None /\ pc'[p] \in Holding
        /\ \A q \in Procs \ {p} : pc'[q] = pc[q] /\ lapsed'[q] = lapsed[q]
    BY <1>4 DEF TryInsert, Goto, hbVars
  <2>4. OneRowPerResource' /\ UniqueToken'
    BY <2>1, <2>2, <2>3
  <2>5. RowOfHolder'
    BY <2>1, <2>3
  <2>6. MineDistinct' /\ MineWhileHolding' /\ OwnHeartbeat'
    BY <2>1, <2>3
  <2>7. NeverLapsedKeepsRow' /\ StaleLapsed'
    <3>1. row.tok = t /\ row.res = want[p] /\ row \in leases'
      OBVIOUS
    <3>2. NeverLapsedKeepsRow'
      <4> SUFFICES ASSUME NEW q \in Procs, pc'[q] \in Holding, ~lapsed'[q]
                   PROVE  \E l \in leases' : l.tok = mine'[q] /\ l.res = want[q]
        BY <2>3
      <4>1. CASE q = p
        BY <3>1, <4>1
      <4>2. CASE q # p
        BY <2>3, <4>2
      <4> QED
        BY <4>1, <4>2
    <3>3. StaleLapsed'
      BY <2>1, <2>3
    <3> QED
      BY <3>2, <3>3
  <2>8. LiveUnlessLapsed'
    <3>1. CASE TTL < age[p]
      <4>1. lapsed'[p]
        BY <1>4, <3>1, LapsedAtInsert
      <4> QED
        BY <2>1, <2>3, <4>1
    <3>2. CASE ~(TTL < age[p])
      <4>1. row.left >= 0
        BY <3>2, TTLAssumption
      <4> QED
        BY <2>1, <2>3, <4>1
    <3> QED
      BY <3>1, <3>2
  <2>9. NoLeakedRow'
    BY <2>1, <2>3 DEF Row
  <2> QED
    BY <2>4, <2>5, <2>6, <2>7, <2>8, <2>9
<1>5. ASSUME NEW p \in Procs, InsertConflict(p) PROVE IInv'
  <2>1. CASE pc[p] = "insert"
    BY <1>5, <2>1 DEF InsertConflict, Goto, hbVars
  <2>2. CASE pc[p] = "reinsert"
    <3>1. Return(p) /\ UNCHANGED <<leases, hbVars, orphans>> /\ mine[p] \notin TokensOf(leases)
      BY <1>5, <2>2 DEF InsertConflict, TokensOf, Row
    <3> QED
      BY <3>1, ReturnKeeps
  <2> QED
    BY <1>5, <2>1, <2>2 DEF InsertConflict
<1>6. ASSUME NEW p \in Procs, CheckToken(p) PROVE IInv'
  BY <1>6 DEF CheckToken, Goto
<1>7. ASSUME NEW p \in Procs, CheckMissing(p) PROVE IInv'
  <2>1. CASE pc[p] = "check"
    BY <1>7, <2>1 DEF CheckMissing, Goto, hbVars, TokensOf, Row
  <2>2. CASE pc[p] = "recheck"
    <3>1. Return(p) /\ UNCHANGED <<leases, hbVars, orphans>> /\ mine[p] \notin TokensOf(leases)
      BY <1>7, <2>2 DEF CheckMissing
    <3> QED
      BY <3>1, ReturnKeeps
  <2> QED
    BY <1>7, <2>1, <2>2 DEF CheckMissing
<1>8. ASSUME NEW p \in Procs, SelectStale(p) PROVE IInv'
  <2>1. CASE StaleIds(p) = {}
    <3>1. Return(p) /\ UNCHANGED <<leases, hbVars, orphans>> /\ mine[p] \notin TokensOf(leases)
      BY <1>8, <2>1 DEF SelectStale, TokensOf, Row
    <3> QED
      BY <3>1, ReturnKeeps
  <2>2. CASE StaleIds(p) # {}
    <3>1. \A q \in Procs : mine[q] \in StaleIds(p) => lapsed[q]
      <4> SUFFICES ASSUME NEW q \in Procs, NEW l \in leases, l.tok = mine[q], l.left < -age[p]
                   PROVE  lapsed[q]
        BY DEF StaleIds, TokensOf, ExpiredAt
      <4>1. l.left \in Int /\ age[p] \in Nat
        BY DEF Row
      <4>2. ~(l.left >= 0)
        BY <4>1
      <4> QED
        BY <4>2
    <3> QED
      BY <1>8, <2>2, <3>1 DEF SelectStale, Goto, hbVars
  <2> QED
    BY <2>1, <2>2
<1>9. ASSUME NEW p \in Procs, DeleteStale(p) PROVE IInv'
  BY <1>9 DEF DeleteStale, Selected, Goto, Return, hbVars, TokensOf, Row
<1>10. ASSUME NEW p \in Procs, Release(p) PROVE IInv'
  BY <1>10 DEF Release, Released, Goto, Return, hbVars, Row
<1>11. ASSUME NEW p \in Procs, HeartbeatRead(p) PROVE IInv'
  BY <1>11 DEF HeartbeatRead, mainVars
<1>12. ASSUME NEW p \in Procs, HeartbeatWrite(p) PROVE IInv'
  BY <1>12, HeartbeatKeeps
<1>13. ASSUME NEW p \in Procs, HeartbeatError(p) PROVE IInv'
  BY <1>13 DEF HeartbeatError, HeartbeatOff, mainVars
<1>14. ASSUME NEW p \in Procs, EndFunc(p) PROVE IInv'
  BY <1>14 DEF EndFunc, HeartbeatOff, Goto, hbVars
<1>15. ASSUME NEW p \in Procs, Crash(p) PROVE IInv'
  BY <1>15 DEF Crash, Return, Goto, HeartbeatOff, TokensOf, Row
<1>16. ASSUME NEW r \in Resources, RaiseStop(r) \/ ClearStop(r) PROVE IInv'
  BY <1>16 DEF RaiseStop, ClearStop, mainVars, hbVars
<1>17. ASSUME Tick PROVE IInv'
  BY <1>17, TickKeeps
<1>18. ASSUME UNCHANGED vars PROVE IInv'
  BY <1>18 DEF vars
<1> QED
  BY <1>1, <1>2, <1>3, <1>4, <1>5, <1>6, <1>7, <1>8, <1>9, <1>10, <1>11, <1>12,
     <1>13, <1>14, <1>15, <1>16, <1>17, <1>18 DEF Next, Advance

-----------------------------------------------------------------------------
(* The strengthened invariant holds in every reachable state.              *)
THEOREM Safety == Spec => []IInv
  BY IInvInit, IInvNext, PTL DEF Spec

(* The UNIQUE index and the purge give a resource one row at all times.    *)
THEOREM OneRow == Spec => []OneRowPerResource
  BY Safety, PTL DEF IInv

(* A lease that was never expired is still in the table, whatever late     *)
(* purges, heartbeats and releases of other processes do.                  *)
THEOREM NeverLapsedKeeps == Spec => []NeverLapsedKeepsRow
  BY Safety, PTL DEF IInv

(* No row is left behind by a live process.                                *)
THEOREM NoLeak == Spec => []NoLeakedRow
  BY Safety, PTL DEF IInv

(* Two processes run on one resource at a time only after a lease expired. *)
THEOREM Exclusion == Spec => []ExclusionUnlessLapsed
<1>1. IInv => ExclusionUnlessLapsed
  <2> SUFFICES ASSUME IInv, NEW p \in Procs, NEW q \in Procs, p # q,
                      pc[p] \in Holding, pc[q] \in Holding, want[p] = want[q],
                      ~lapsed[p], ~lapsed[q]
               PROVE  FALSE
    BY DEF ExclusionUnlessLapsed
  <2>1. PICK l \in leases : l.tok = mine[p] /\ l.res = want[p]
    BY DEF IInv, NeverLapsedKeepsRow
  <2>2. PICK m \in leases : m.tok = mine[q] /\ m.res = want[q]
    BY DEF IInv, NeverLapsedKeepsRow
  <2>3. mine[p] = mine[q]
    BY <2>1, <2>2 DEF IInv, OneRowPerResource
  <2> QED
    BY <2>3 DEF IInv, MineDistinct, MineWhileHolding
<1> QED
  BY <1>1, Safety, PTL

-----------------------------------------------------------------------------
(***************************************************************************)
(* The refinement.  What a step does to the holders shows on the live rows *)
(* alone: a step after which every live row was live before only ends      *)
(* leases (Fewer); a step that brings one row to life grants one (Revived).*)
(* A resource has one row in both states, so its live row is its holder.   *)
(***************************************************************************)
Live(T) == {l \in T : ~IsExpired(l)}

HolderIn(T, r) ==
  IF {l \in RowsOf(T, r) : ~IsExpired(l)} = {} THEN None
    ELSE (CHOOSE l \in {l \in RowsOf(T, r) : ~IsExpired(l)} : TRUE).holder

OneRowIn(T) == \A l, m \in T : l.res = m.res => l = m

\* The holders of all resources, as the refinement mapping has them.
Holds(T) == [r \in Resources |-> HolderIn(T, r)]

LEMMA HolderOfLive ==
  ASSUME NEW T, OneRowIn(T), NEW l \in Live(T)
  PROVE  HolderIn(T, l.res) = l.holder
<1> DEFINE L == {m \in RowsOf(T, l.res) : ~IsExpired(m)}
<1>1. l \in L /\ \A m \in L : m = l
  BY DEF Live, RowsOf, OneRowIn
<1>2. (CHOOSE m \in L : TRUE) = l
  BY <1>1
<1> QED
  BY <1>1, <1>2 DEF HolderIn

LEMMA NoHolder ==
  ASSUME NEW T, NEW r, \A l \in Live(T) : l.res # r
  PROVE  HolderIn(T, r) = None
BY DEF HolderIn, Live, RowsOf

LEMMA MappedHolder ==
  /\ [r \in Resources |-> HolderOf(r)] = Holds(leases)
  /\ [r \in Resources |-> HolderOf(r)]' = Holds(leases')
BY DEF HolderOf, IsLocked, HolderIn, Holds, RowsOf, IsExpired, ExpiredAt

\* l was there before, live, for the same resource and holder.
WasLive(l, T) == \E m \in Live(T) : m.res = l.res /\ m.holder = l.holder

LEMMA Fewer ==
  ASSUME OneRowIn(leases), OneRowIn(leases'), \A l \in Live(leases') : WasLive(l, leases)
  PROVE  Lease!Next
<1> DEFINE S == {r \in Resources : \A l \in Live(leases') : l.res # r}
<1>1. ASSUME NEW r \in Resources
      PROVE  HolderIn(leases', r) = IF r \in S THEN None ELSE HolderIn(leases, r)
  <2>1. CASE r \in S
    BY <2>1, NoHolder
  <2>2. CASE r \notin S
    <3>1. PICK l \in Live(leases') : l.res = r
      BY <2>2
    <3>2. PICK m \in Live(leases) : m.res = r /\ m.holder = l.holder
      BY <3>1 DEF WasLive
    <3>3. HolderIn(leases', r) = l.holder
      BY <3>1, HolderOfLive
    <3>4. HolderIn(leases, r) = m.holder
      BY <3>2, HolderOfLive
    <3> QED
      BY <2>2, <3>2, <3>3, <3>4
  <2> QED
    BY <2>1, <2>2
<1>2. Holds(leases') = [r \in Resources |-> IF r \in S THEN None ELSE Holds(leases)[r]]
  BY <1>1 DEF Holds
<1>3. Lease!End(S)
  BY <1>2, MappedHolder DEF Lease!End
<1> QED
  BY <1>3 DEF Lease!Next

LEMMA Revived ==
  ASSUME OneRowIn(leases), OneRowIn(leases'),
         NEW l \in Live(leases'), l.res \in Resources, l.holder \in Procs,
         \A m \in Live(leases) : m.res # l.res,
         \A m : m.res # l.res => (m \in Live(leases) <=> m \in Live(leases'))
  PROVE  Lease!Next
<1>1. HolderIn(leases, l.res) = None /\ HolderIn(leases', l.res) = l.holder
  BY NoHolder, HolderOfLive
<1>2. ASSUME NEW r \in Resources, r # l.res
      PROVE  HolderIn(leases', r) = HolderIn(leases, r)
  <2>1. CASE \E m \in Live(leases) : m.res = r
    <3>1. PICK m \in Live(leases) : m.res = r
      BY <2>1
    <3>2. m \in Live(leases')
      BY <1>2, <3>1
    <3> QED
      BY <3>1, <3>2, HolderOfLive
  <2>2. CASE \A m \in Live(leases) : m.res # r
    <3>1. \A m \in Live(leases') : m.res # r
      BY <1>2, <2>2
    <3> QED
      BY <2>2, <3>1, NoHolder
  <2> QED
    BY <2>1, <2>2
<1>3. Holds(leases') = [Holds(leases) EXCEPT ![l.res] = l.holder]
  BY <1>1, <1>2 DEF Holds
<1>4. Holds(leases)[l.res] = None
  BY <1>1 DEF Holds
<1>5. Lease!Grant(l.res, l.holder)
  BY <1>3, <1>4, MappedHolder DEF Lease!Grant
<1> QED
  BY <1>5 DEF Lease!Next

LEMMA InsertRefines ==
  ASSUME IInv, IInv', NEW p \in Procs, TryInsert(p)
  PROVE  Lease!Next
<1>1. OneRowIn(leases) /\ OneRowIn(leases') /\ leases' \subseteq Row
  BY DEF IInv, OneRowPerResource, OneRowIn, TypeInv, TypeOK
<1>2. PICK t \in Fresh :
        leases' = leases \cup
          {[tok |-> t, res |-> want[p], holder |-> p, left |-> TTL - age[p]]}
  BY DEF TryInsert
<1> DEFINE row == [tok |-> t, res |-> want[p], holder |-> p, left |-> TTL - age[p]]
<1>3. /\ row \in leases' /\ row.res = want[p] /\ row.holder = p
      /\ row.res \in Resources /\ leases' = leases \cup {row}
  BY <1>1, <1>2 DEF Row
<1>4. \A m \in leases : m.res # row.res
  BY <1>3 DEF TryInsert, CanInsert, RowsOf
<1> HIDE DEF row
<1>5. CASE IsExpired(row)
  <2>1. \A l \in Live(leases') : WasLive(l, leases)
    BY <1>3, <1>5 DEF Live, WasLive
  <2> QED
    BY <1>1, <2>1, Fewer
<1>6. CASE ~IsExpired(row)
  <2>1. row \in Live(leases') /\ row.holder \in Procs
    BY <1>3, <1>6 DEF Live
  <2>2. \A m \in Live(leases) : m.res # row.res
    BY <1>4 DEF Live
  <2>3. \A m : m.res # row.res => (m \in Live(leases) <=> m \in Live(leases'))
    BY <1>3 DEF Live
  <2> QED
    BY <1>1, <1>3, <2>1, <2>2, <2>3, Revived
<1> QED
  BY <1>5, <1>6

LEMMA HeartbeatRefines ==
  ASSUME IInv, IInv', NEW p \in Procs, HeartbeatWrite(p)
  PROVE  Lease!Next
<1> DEFINE R(m) == IF m.tok = hbTok[p] THEN [m EXCEPT !.left = TTL - hbAge[p]] ELSE m
<1>1. /\ OneRowIn(leases) /\ OneRowIn(leases')
      /\ leases \subseteq Row /\ UniqueToken
  BY DEF IInv, OneRowPerResource, OneRowIn, TypeInv, TypeOK
<1>2. leases' = {R(m) : m \in leases}
  BY DEF HeartbeatWrite, Renewed
<1>3. \A m \in leases : /\ R(m).res = m.res /\ R(m).holder = m.holder
                        /\ m.tok # hbTok[p] => R(m) = m
  BY <1>1 DEF Row
<1> HIDE DEF R
<1>4. CASE \E m \in leases : m.tok = hbTok[p] /\ IsExpired(m) /\ ~IsExpired(R(m))
  <2>1. PICK m \in leases : m.tok = hbTok[p] /\ IsExpired(m) /\ ~IsExpired(R(m))
    BY <1>4
  <2>2. R(m) \in Live(leases') /\ R(m).res \in Resources /\ R(m).holder \in Procs
    BY <1>1, <1>2, <1>3, <2>1 DEF Live, Row
  <2>3. \A l \in Live(leases) : l.res # R(m).res
    BY <1>1, <1>3, <2>1 DEF Live, OneRowIn
  <2>4. \A l \in leases : l.res # m.res => l.tok # hbTok[p] /\ R(l) = l
    BY <1>1, <1>3, <2>1 DEF UniqueToken
  <2>5. \A l : l.res # R(m).res => (l \in Live(leases) <=> l \in Live(leases'))
    BY <1>2, <1>3, <2>1, <2>4 DEF Live
  <2> QED
    BY <1>1, <2>2, <2>3, <2>5, Revived
<1>5. CASE \A m \in leases : m.tok = hbTok[p] /\ ~IsExpired(R(m)) => ~IsExpired(m)
  <2>1. ASSUME NEW l \in Live(leases') PROVE WasLive(l, leases)
    <3>1. PICK m \in leases : l = R(m) /\ ~IsExpired(l)
      BY <1>2 DEF Live
    <3>2. m \in Live(leases)
      BY <1>3, <1>5, <3>1 DEF Live
    <3> QED
      BY <1>3, <3>1, <3>2 DEF WasLive
  <2> QED
    BY <1>1, <2>1, Fewer
<1> QED
  BY <1>4, <1>5

LEMMA TickRefines ==
  ASSUME IInv, IInv', Tick
  PROVE  Lease!Next
<1> DEFINE R(m) == [m EXCEPT !.left = Older(m.left)]
<1>1. /\ OneRowIn(leases) /\ OneRowIn(leases') /\ leases \subseteq Row
      /\ leases' = {R(m) : m \in leases}
  BY DEF IInv, OneRowPerResource, OneRowIn, TypeInv, TypeOK, Tick
<1>2. ASSUME NEW m \in leases, ~IsExpired(R(m))
      PROVE  ~IsExpired(m) /\ R(m).res = m.res /\ R(m).holder = m.holder
  <2>1. R(m).left = Older(m.left) /\ m.left \in Int
    BY <1>1 DEF Row
  <2>2. R(m).res = m.res /\ R(m).holder = m.holder
    BY <1>1 DEF Row
  <2>3. ~(Older(m.left) < 0)
    BY <1>2, <2>1 DEF IsExpired, ExpiredAt
  <2> QED
    BY <2>1, <2>2, <2>3, DelayAssumption DEF IsExpired, ExpiredAt, Older
<1> HIDE DEF R
<1>3. \A l \in Live(leases') : WasLive(l, leases)
  BY <1>1, <1>2 DEF Live, WasLive
<1> QED
  BY <1>1, <1>3, Fewer

LEMMA StepRefines == IInv /\ IInv' /\ [Next]_vars => [Lease!Next]_([r \in Resources |-> HolderOf(r)])
<1> SUFFICES ASSUME IInv, IInv', [Next]_vars PROVE Lease!Next
  OBVIOUS
<1>1. ASSUME leases' \subseteq leases PROVE Lease!Next
  <2>1. OneRowIn(leases) /\ OneRowIn(leases')
    BY DEF IInv, OneRowPerResource, OneRowIn
  <2>2. \A l \in Live(leases') : WasLive(l, leases)
    BY <1>1 DEF Live, WasLive
  <2> QED
    BY <2>1, <2>2, Fewer
<1>2. ASSUME NEW p \in Procs, TryInsert(p) PROVE Lease!Next
  BY <1>2, InsertRefines
<1>3. ASSUME NEW p \in Procs, HeartbeatWrite(p) PROVE Lease!Next
  BY <1>3, HeartbeatRefines
<1>4. CASE Tick
  BY <1>4, TickRefines
<1>5. ASSUME NEW p \in Procs, DeleteStale(p) \/ Release(p) PROVE leases' \subseteq leases
  BY <1>5 DEF DeleteStale, Release
<1>6. ASSUME NEW p \in Procs,
             \/ \E r \in Resources : Begin(p, r)
             \/ Purge(p) \/ ReadNow(p) \/ InsertConflict(p) \/ CheckToken(p)
             \/ CheckMissing(p) \/ SelectStale(p)
             \/ HeartbeatRead(p) \/ HeartbeatError(p) \/ EndFunc(p) \/ Crash(p)
      PROVE  leases' \subseteq leases
  BY <1>6 DEF Begin, Purge, ReadNow, InsertConflict, CheckToken, CheckMissing, SelectStale,
              HeartbeatRead, HeartbeatError, EndFunc, Crash
<1>7. ASSUME NEW r \in Resources, RaiseStop(r) \/ ClearStop(r) PROVE leases' \subseteq leases
  BY <1>7 DEF RaiseStop, ClearStop
<1>8. CASE UNCHANGED vars
  BY <1>1, <1>8 DEF vars
<1> QED
  BY <1>1, <1>2, <1>3, <1>4, <1>5, <1>6, <1>7, <1>8 DEF Next, Advance

LEMMA InitRefines == Init => Lease!Init
<1> SUFFICES ASSUME Init PROVE Lease!Init
  OBVIOUS
<1>1. \A r \in Resources : HolderOf(r) = None
  BY DEF Init, HolderOf, IsLocked, RowsOf
<1> QED
  BY <1>1 DEF Lease!Init

(* The lease table implements the exclusive lease: one holder at a time,   *)
(* and a moment without one between two, for every number of processes.    *)
THEOREM LeaseRefines == Spec => ImplementsLease
  BY Safety, InitRefines, StepRefines, PTL DEF Spec, ImplementsLease, Lease!Spec
=============================================================================
