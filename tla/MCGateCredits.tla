--------------------------- MODULE MCGateCredits ---------------------------
(* Small instances of GateCredits for TLC. *)
EXTENDS GateCredits

CONSTANTS t1, t2

Tier(v, f) == [min_volume |-> v, fee |-> f]

\* Schedules with and without a base tier, and two the contract rejects.
MCSchedules == {<<Tier(0, 2), Tier(1, 1)>>, <<Tier(1, 1)>>,
                <<Tier(1, 1), Tier(0, 2)>>, <<Tier(0, 3)>>}
=============================================================================
