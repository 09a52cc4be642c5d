----------------------------- MODULE MCEngines ------------------------------
(* The values of Engines that are no numbers and no sets of names: graphs,  *)
(* maps, plans, and sets with negative numbers.                             *)
EXTENDS Engines

MCNodeOf == [t1 |-> "n1", t2 |-> "n1", t3 |-> "n2"]
MCProposer == [d1 |-> "m1"]
MCConsent == [d1 |-> {"m2"}]
MCInfo == [d1 |-> {}]
MCHotelOf == [t1 |-> "h1", t2 |-> "h2"]
MCDfHalf == [num |-> 1, den |-> 2]
MCKeysOf == [c1 |-> {"k1"}, c2 |-> {"k2"}]
MCBudget == [tokens |-> 3, cpu |-> 1, memory |-> 1]
MCOrder == <<"s1", "s2", "s3">>
MCDependsOn == [s1 |-> {}, s2 |-> {"s1"}, s3 |-> {"s2"}]
MCStandbys == <<"n2">>
MCBucket == [u1 |-> 0, u2 |-> 50]
MCMatching == {{"u1", "u2"}, {"u1"}}
MCRollSchedule == <<50, 0, 100>>
MCDrifts == {-3, 2, 7}
MCSetpoints == {-2, 0, 2}
MCValues == {-4, 0, 3, 4}
MCModes == <<"slot_crash", "token_starvation">>
MCSlotOf == [k1 |-> 0, k2 |-> 1, k3 |-> 3]
MCCellOffset == <<0, 1>>
MCNeighbors == <<<<2, 3>>, <<3, 1>>, <<1, 2>>>>
=============================================================================
