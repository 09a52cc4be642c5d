--------------------------- MODULE ExclusiveLease ---------------------------
(***************************************************************************)
(* What every lease and lock manager of the repository promises, without   *)
(* rows, tokens or clocks: a resource has one holder at a time.  A lease   *)
(* begins only when nobody holds the resource; it ends by a release, by    *)
(* its expiry or by force, and one step may end several.                   *)
(***************************************************************************)
CONSTANTS
  Resources,  \* what can be leased
  Holders,    \* who can hold a lease
  None        \* no holder

VARIABLE holder  \* the holder of a resource, or None

Init == holder = [r \in Resources |-> None]

\* A lease begins, or an expired one is renewed before anybody else came.
Grant(r, h) ==
  /\ holder[r] = None
  /\ holder' = [holder EXCEPT ![r] = h]

\* Leases end; nobody is put in the place of their holders in that step.
End(S) == holder' = [r \in Resources |-> IF r \in S THEN None ELSE holder[r]]

Next ==
  \/ \E r \in Resources, h \in Holders : Grant(r, h)
  \/ \E S \in SUBSET Resources : End(S)

Spec == Init /\ [][Next]_holder
=============================================================================
