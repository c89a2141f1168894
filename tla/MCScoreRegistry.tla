-------------------------- MODULE MCScoreRegistry --------------------------
(* Small instances of ScoreRegistry for TLC. *)
EXTENDS ScoreRegistry, TLC

CONSTANTS w1, w2, p1, p2

Floor == [enabled |-> TRUE, high_water_mark |-> 80, floor_value |-> 20]
MCFloorPolicies == {Floor}

MCSymmetry == Permutations({w1, w2})
=============================================================================
