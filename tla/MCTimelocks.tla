---------------------------- MODULE MCTimelocks ----------------------------
(* Small instances of Timelocks for TLC; one tick is two days, the least upgrade delay. *)
EXTENDS Timelocks

CONSTANTS h1

Limits(lo, hi) == [min |-> lo, max |-> hi]

\* The limits, scaled down; a cooldown of 2 fits in a staleness window of 2.
MCBounds == [threshold |-> Limits(0, 1), depth |-> Limits(1, 1), upgradeDelay |-> Limits(1, 2),
             staleness |-> Limits(1, 2), cooldown |-> Limits(1, 2), decay |-> Limits(0, 1),
             velocity |-> Limits(0, 1)]

MCDefaults == [threshold |-> 1, depth |-> 1, upgradeDelay |-> 1, staleness |-> 2,
               cooldown |-> 1, decay |-> 0, velocity |-> 0]

\* What callers try: both orders of cooldown and staleness window, an upgrade
\* delay and a cooldown out of bounds.
MCInputs == [threshold |-> {0}, depth |-> {1}, upgradeDelay |-> {0, 2}, staleness |-> {1},
             cooldown |-> {2, 3}, decay |-> {0}, velocity |-> {0}]
=============================================================================
