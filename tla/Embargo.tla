------------------------------ MODULE Embargo ------------------------------
(***************************************************************************)
(* The score embargo: the embargo record of each wallet and the bounded    *)
(* EmbargoedWalletIndex, both in temporary storage, which the ledger       *)
(* evicts when its TTL runs out, and the ActiveEmbargoCount, in persistent *)
(* storage.  A timed embargo ends by itself when the clock passes its      *)
(* expiry; nothing runs at that moment.                                    *)
(*                                                                         *)
(* One tick of now stands for one ledger: it advances the timestamp that   *)
(* ends timed embargoes and the sequence number that evicts entries.       *)
(***************************************************************************)
EXTENDS Integers, Sequences, FiniteSets, SequencesExt

CONSTANTS
    Wallets,
    Threshold,    \* EMBARGO_TTL_THRESHOLD
    ExtendTo,     \* EMBARGO_TTL_EXTEND_TO
    MaxEmbargoed, \* MAX_EMBARGOED_WALLETS
    MaxTime,      \* bound on the clock
    MaxCount      \* bound on the counter

ASSUME TtlAssumption == Threshold \in Nat /\ ExtendTo \in Nat /\ Threshold < ExtendTo
ASSUME EmbargoBounds == MaxEmbargoed \in Nat /\ MaxTime \in Nat /\ MaxCount \in Nat
ASSUME WalletsFinite == IsFiniteSet(Wallets)

VARIABLES
    now,
    embargo,    \* ScoreEmbargo: expiry timestamp, Indefinite, or NoEmbargo
    until,      \* last ledger of each embargo record (kept by the ledger)
    index,      \* EmbargoedWalletIndex
    indexUntil, \* last ledger of the index (kept by the ledger)
    count       \* ActiveEmbargoCount

vars == <<now, embargo, until, index, indexUntil, count>>

\* EmbargoExpiry; Indefinite is later than any time the clock reaches.
NoEmbargo == -1
Indefinite == MaxTime + 1
Expiries == 0..MaxTime \cup {Indefinite}

Indexed == {index[i] : i \in DOMAIN index}

-----------------------------------------------------------------------------
(* Storage helpers *)

\* peek_is_embargoed: a timed embargo holds up to and including its expiry.
Active(w) == embargo[w] >= now

\* extend_ttl: acts once the remaining TTL is at most the threshold.  A new
\* entry starts below the threshold.
ExtendTtl(u) == IF u - now <= Threshold THEN now + ExtendTo ELSE u

\* get_embargoed_wallets extends the index it reads unless it is empty.
IndexRead == IF index = <<>> THEN indexUntil ELSE ExtendTtl(indexUntil)

\* increment_active_embargo_count
Increment == count' = count + 1

\* Mutant of Decrement: the subtraction does not saturate.
DecrementBelowZero == count' = count - 1

\* decrement_active_embargo_count
Decrement == count' = IF count > 0 THEN count - 1 ELSE 0

-----------------------------------------------------------------------------
(* Entry points *)

\* set_score_embargo: an active embargo is replaced in place; otherwise the
\* wallet is indexed, unless the index is full, and counted.
SetScoreEmbargo(w, expiry) ==
    /\ count < MaxCount
    /\ Active(w) => UNCHANGED <<index, indexUntil, count>>
    /\ ~Active(w) => /\ w \in Indexed \/ Len(index) < MaxEmbargoed
                     /\ index' = IF w \in Indexed THEN index ELSE Append(index, w)
                     /\ indexUntil' = ExtendTtl(indexUntil)
                     /\ Increment
    /\ embargo' = [embargo EXCEPT ![w] = expiry]
    /\ until' = [until EXCEPT ![w] = ExtendTtl(@)]
    /\ UNCHANGED now

\* Mutant of LiftScoreEmbargo: the counter drops for an expired embargo too.
LiftAlwaysDecrements(w) ==
    /\ embargo' = [embargo EXCEPT ![w] = NoEmbargo]
    /\ until' = [until EXCEPT ![w] = 0]
    /\ index' = RemoveFirst(index, w)
    /\ indexUntil' = IndexRead
    /\ Decrement
    /\ UNCHANGED now

LiftScoreEmbargo(w) ==
    /\ embargo' = [embargo EXCEPT ![w] = NoEmbargo]
    /\ until' = [until EXCEPT ![w] = 0]
    /\ index' = RemoveFirst(index, w)
    /\ indexUntil' = IndexRead
    /\ IF Active(w) THEN Decrement ELSE UNCHANGED count
    /\ UNCHANGED now

\* One wallet of batch_lift_score_embargo: the index is not maintained, and a
\* wallet without an active embargo is skipped.
BatchLiftEntry(w) ==
    /\ Active(w)
    /\ embargo' = [embargo EXCEPT ![w] = NoEmbargo]
    /\ until' = [until EXCEPT ![w] = 0]
    /\ Decrement
    /\ UNCHANGED <<now, index, indexUntil>>

\* Mutant of RevokeAllEmbargoes: the records stay.
RevokeForgetsRecords ==
    /\ index' = <<>>
    /\ indexUntil' = 0
    /\ count' = 0
    /\ UNCHANGED <<now, embargo, until>>

RevokeAllEmbargoes ==
    /\ embargo' = [w \in Wallets |-> IF w \in Indexed THEN NoEmbargo ELSE embargo[w]]
    /\ until' = [w \in Wallets |-> IF w \in Indexed THEN 0 ELSE until[w]]
    /\ index' = <<>>
    /\ indexUntil' = 0
    /\ count' = 0
    /\ UNCHANGED now

\* is_embargoed, on the path of every score read: an active record is renewed.
ReadEmbargoed(w) ==
    /\ Active(w)
    /\ until' = [until EXCEPT ![w] = ExtendTtl(@)]
    /\ UNCHANGED <<now, embargo, index, indexUntil, count>>

\* get_embargoed_wallet_count
ReadIndex ==
    /\ indexUntil' = IndexRead
    /\ UNCHANGED <<now, embargo, until, index, count>>

-----------------------------------------------------------------------------
(* The ledger: time passes, and temporary entries past their TTL are gone. *)
NextLedger ==
    /\ now < MaxTime
    /\ now' = now + 1
    /\ embargo' = [w \in Wallets |-> IF until[w] <= now THEN NoEmbargo ELSE embargo[w]]
    /\ index' = IF indexUntil <= now THEN <<>> ELSE index
    /\ UNCHANGED <<until, indexUntil, count>>

Init ==
    /\ now = 0
    /\ embargo = [w \in Wallets |-> NoEmbargo]
    /\ until = [w \in Wallets |-> 0]
    /\ index = <<>>
    /\ indexUntil = 0
    /\ count = 0

Next ==
    \/ \E w \in Wallets, expiry \in Expiries : SetScoreEmbargo(w, expiry)
    \/ \E w \in Wallets : LiftScoreEmbargo(w)
    \/ \E w \in Wallets : BatchLiftEntry(w)
    \/ RevokeAllEmbargoes
    \/ \E w \in Wallets : ReadEmbargoed(w)
    \/ ReadIndex
    \/ NextLedger

Spec == Init /\ [][Next]_vars

-----------------------------------------------------------------------------
(* Properties *)

\* The type of every variable.
TypeOK ==
    /\ now \in 0..MaxTime
    /\ embargo \in [Wallets -> Expiries \cup {NoEmbargo}]
    /\ until \in [Wallets -> Nat]
    /\ index \in Seq(Wallets)
    /\ Len(index) <= MaxEmbargoed
    /\ indexUntil \in Nat
    /\ count \in Nat

\* The index lists no wallet twice, although an expired embargo leaves its
\* wallet in the index and a later embargo of the same wallet counts as new.
IndexDistinct == \A i, j \in DOMAIN index : index[i] = index[j] => i = j

\* Until the first TTL can run out, every wallet whose embargo is in force is
\* indexed, so revoke_all_embargoes releases every one of them.
ActiveAreIndexed == now <= ExtendTo => \A w \in Wallets : Active(w) => w \in Indexed

\* Until the first TTL can run out, the counter never reports fewer embargoes
\* than are in force: it only errs by counting embargoes that ended by
\* themselves.
CountCoversActive == now <= ExtendTo => count >= Cardinality({w \in Wallets : Active(w)})

=============================================================================
