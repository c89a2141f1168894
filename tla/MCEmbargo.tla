----------------------------- MODULE MCEmbargo -----------------------------
(* Small instances of Embargo for TLC. *)
EXTENDS Embargo, TLC

CONSTANTS w1, w2, w3

MCSymmetry == Permutations({w1, w2, w3})
=============================================================================
