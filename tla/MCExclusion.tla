---------------------------- MODULE MCExclusion ----------------------------
(* Three threads of two holders, so that a lock changes hands within one and *)
(* between two, two keys with one part in common, and two of whoever else    *)
(* competes; every lease can lapse, and two phases can be undone in order.   *)
EXTENDS Exclusion

MCKeys == {<<"m1", "d1">>, <<"m2", "d1">>}
MCThreads == {"t1", "t2", "t3"}
MCHolderOf == [t1 |-> "h1", t2 |-> "h1", t3 |-> "h2"]
MCCapacity ==
  [e \in {"lock-edit", "lock-project", "lock-document"} |-> IF e = "lock-document" THEN 2 ELSE 1]
MCChannels == {"c1", "c2"}
MCProcs == {"p1", "p2"}
=============================================================================
