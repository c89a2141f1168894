----------------------------- MODULE MCService -----------------------------
(* Small instances of Service.                                             *)
EXTENDS Service, TLC

MCSymmetry == Permutations(Signers) \cup Permutations(Keys)

\* The signers and the aggregate key meet only in the guard of a threshold
\* signature; TLC explores one of them at a time, each with everything else.
NoSigners == serviceSet = {} /\ ttl = 0 /\ grace = 0
NoAggregate == active["aggregate"] = NoKey /\ pending["aggregate"] = NoPending
MCFocus == NoSigners \/ NoAggregate

=============================================================================
