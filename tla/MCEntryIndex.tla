--------------------------- MODULE MCEntryIndex ---------------------------
(* Small instances of EntryIndex for TLC. *)
EXTENDS EntryIndex, TLC

CONSTANTS k1, k2, k3

\* A narrow window with a cap, a wide one without.
MCParams == {[perEntry |-> 1, window |-> 0, cap |-> 1],
             [perEntry |-> 2, window |-> 1, cap |-> 0]}

MCSymmetry == Permutations({k1, k2, k3})
=============================================================================
