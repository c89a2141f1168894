---------------------------- MODULE MCAuthority ----------------------------
(* Small instances of Authority.                                           *)
EXTENDS Authority, TLC

\* Addresses other than the first admin are interchangeable.
MCSymmetry == Permutations(Addresses \ {InitialAdmin})

=============================================================================
