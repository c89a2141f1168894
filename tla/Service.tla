------------------------------ MODULE Service ------------------------------
(***************************************************************************)
(* How the scoring service proves who it is, and how its silence is        *)
(* noticed.  Submissions are authorised by a service account or by a       *)
(* threshold of signers that age; they are signed with a key that is       *)
(* rotated with an overlap and can be revoked.  Every accepted submission  *)
(* is a sign of life; a read that finds the service silent for too long    *)
(* raises an alert.                                                        *)
(*                                                                         *)
(* The administrators may do what they are allowed to at any time (who     *)
(* they are is the subject of Authority).  A signature is the key that     *)
(* made it: recovering the key is the host's work.                         *)
(***************************************************************************)
EXTENDS Integers, FiniteSets

CONSTANTS
    Signers,
    ServiceAccount,    \* the account given to initialize
    MaxServiceSigners, \* MAX_SERVICE_SIGNERS
    Keys, NoKey,
    Slots,             \* "service" and "aggregate": the two keys of the contract
    Overlaps,          \* overlaps tried, none above MAX_KEY_OVERLAP_SECS
    Ages,              \* TTLs and graces tried
    Silences,          \* heartbeat alert thresholds tried
    MaxTime            \* bound on the clock

ASSUME SignersTyped == IsFiniteSet(Signers)
ASSUME KeysTyped == NoKey \notin Keys
ASSUME SlotsTyped == Slots \subseteq {"service", "aggregate"}
ASSUME NumbersTyped ==
    /\ MaxServiceSigners \in Nat /\ MaxTime \in Nat \ {0}
    /\ Overlaps \subseteq Nat /\ Ages \subseteq Nat /\ Silences \subseteq Nat

VARIABLES
    now,
    serviceSet, threshold,
    addedAt,       \* SignerAddedAt; 0 for an absent entry
    ttl, grace,    \* SignerTtl, SignerGracePeriod
    active,        \* ServicePubKey and AggregateServicePubKey
    pending,       \* the key that replaces it, with the end of the overlap
    revokedFrom,   \* effective_from of RevokedKey; Never for an absent record
    lastActivity,  \* LastServiceActivityAt; 0 before the first
    alertAfter,    \* ServiceHeartbeatAlertThreshold
    alerted,       \* ServiceSilentAlertEmitted
    alerts         \* history: alerts since the last sign of life

signerVars == <<serviceSet, threshold, addedAt, ttl, grace>>
keyVars == <<active, pending, revokedFrom>>
beatVars == <<lastActivity, alertAfter, alerted, alerts>>
vars == <<now, signerVars, keyVars, beatVars>>

Never == MaxTime + 1
NoPending == [key |-> NoKey, expiry |-> 0]

-----------------------------------------------------------------------------
(* Signers *)

AddServiceSigner(s) ==
    /\ Cardinality(serviceSet) < MaxServiceSigners
    /\ s \notin serviceSet
    /\ serviceSet' = serviceSet \cup {s}
    /\ addedAt' = [addedAt EXCEPT ![s] = now]
    /\ UNCHANGED <<now, threshold, ttl, grace, keyVars, beatVars>>

\* Mutant of FittedThreshold: a threshold above the size is kept.
KeptThreshold(set) == IF set = {} THEN 0 ELSE threshold

\* The threshold follows a set that has become smaller.
FittedThreshold(set) ==
    IF set = {} THEN 0
    ELSE IF threshold > Cardinality(set) THEN Cardinality(set) ELSE threshold

RemoveServiceSigner(s) ==
    /\ s \in serviceSet
    /\ serviceSet' = serviceSet \ {s}
    /\ threshold' = FittedThreshold(serviceSet \ {s})
    /\ addedAt' = [addedAt EXCEPT ![s] = 0]
    /\ UNCHANGED <<now, ttl, grace, keyVars, beatVars>>

\* Mutant of SetServiceThreshold: the size of the set is not consulted.
SetAnyServiceThreshold(t) ==
    /\ t # 0
    /\ threshold' = t
    /\ UNCHANGED <<now, serviceSet, addedAt, ttl, grace, keyVars, beatVars>>

SetServiceThreshold(t) ==
    /\ t # 0 /\ t <= Cardinality(serviceSet)
    /\ threshold' = t
    /\ UNCHANGED <<now, serviceSet, addedAt, ttl, grace, keyVars, beatVars>>

SetSignerRotationTtl(a) ==
    /\ ttl' = a
    /\ UNCHANGED <<now, serviceSet, threshold, addedAt, grace, keyVars, beatVars>>

SetSignerRotationGrace(a) ==
    /\ grace' = a
    /\ UNCHANGED <<now, serviceSet, threshold, addedAt, ttl, keyVars, beatVars>>

\* check_signer_expired; an age that is not recorded never expires.
Expired(s) == ttl # 0 /\ addedAt[s] # 0 /\ (now - addedAt[s]) - ttl > grace

\* Is the threshold in force.
MultiSig == serviceSet # {} /\ threshold > 0

Quorum(set) == Cardinality(set) >= threshold /\ set \subseteq serviceSet

\* The attested batch, and authorize_submission of the consensus paths.
FreshQuorum(set) == MultiSig => Quorum(set) /\ \A s \in set : ~Expired(s)

\* submit_score: the service account alone also passes, and ages are not
\* looked at.
ScoreQuorum(set) == MultiSig /\ set # {ServiceAccount} => Quorum(set)

-----------------------------------------------------------------------------
(* Keys *)

SetPubkey(slot, k) ==
    /\ active' = [active EXCEPT ![slot] = k]
    /\ UNCHANGED <<now, signerVars, pending, revokedFrom, beatVars>>

\* An overlap of zero replaces the key at once; any earlier rotation is
\* superseded.
RotatePubkey(slot, k, overlap) ==
    /\ IF overlap = 0
       THEN /\ active' = [active EXCEPT ![slot] = k]
            /\ pending' = [pending EXCEPT ![slot] = NoPending]
       ELSE /\ pending' = [pending EXCEPT ![slot] = [key |-> k, expiry |-> now + overlap]]
            /\ UNCHANGED active
    /\ UNCHANGED <<now, signerVars, revokedFrom, beatVars>>

\* Mutant of EarlierOf: the latest order counts.
LatestOf(old, new) == new

\* A revocation is never postponed by a later order.
EarlierOf(old, new) == IF new < old THEN new ELSE old

SetRevokedKey(k, from) ==
    /\ revokedFrom' = [revokedFrom EXCEPT ![k] = EarlierOf(revokedFrom[k], from)]
    /\ UNCHANGED <<now, signerVars, active, pending, beatVars>>

ClearRevokedKey(k) ==
    /\ revokedFrom' = [revokedFrom EXCEPT ![k] = Never]
    /\ UNCHANGED <<now, signerVars, active, pending, beatVars>>

Revoked(k) == now >= revokedFrom[k]

Elapsed(slot) == pending[slot] # NoPending /\ now > pending[slot].expiry

\* What verify_signature and verify_threshold_attestation work with: a key
\* whose overlap has elapsed has become the active one.
SettledKey(slot) == IF Elapsed(slot) THEN pending[slot].key ELSE active[slot]
SettledPending(slot) == IF Elapsed(slot) THEN NoPending ELSE pending[slot]

\* Mutant of InOverlap: the pending key is not accepted at the last moment.
InOverlapEarly(p, k) == p.key = k /\ now < p.expiry

InOverlap(p, k) == p.key = k /\ now <= p.expiry

Accepts(slot, k) ==
    /\ SettledKey(slot) # NoKey
    /\ ~Revoked(SettledKey(slot))
    /\ \/ k = SettledKey(slot)
       \/ InOverlap(SettledPending(slot), k) /\ ~Revoked(k)

-----------------------------------------------------------------------------
(* Signs of life *)

RecordServiceActivity ==
    /\ lastActivity' = now
    /\ alerted' = FALSE
    /\ alerts' = 0
    /\ UNCHANGED alertAfter

\* An accepted signature: a rotation that has elapsed is completed.
Signed(slot, k) ==
    /\ Accepts(slot, k)
    /\ active' = [active EXCEPT ![slot] = SettledKey(slot)]
    /\ pending' = [pending EXCEPT ![slot] = SettledPending(slot)]
    /\ RecordServiceActivity
    /\ UNCHANGED <<now, signerVars, revokedFrom>>

SubmitScore(set, k) == ScoreQuorum(set) /\ Signed("service", k)

\* The threshold signature stands for the signers it names.  They are a list
\* as long as the threshold at least, whose entries are members; the list may
\* name a member more than once, so any members make up one.
SubmitThresholdSigned(set, k) ==
    /\ active["aggregate"] # NoKey
    /\ MultiSig => set # {} /\ set \subseteq serviceSet
    /\ Signed("aggregate", k)

SubmitScoresBatchAttested(set, k) ==
    /\ active["service"] # NoKey
    /\ FreshQuorum(set)
    /\ Signed("service", k)

\* Anyone relays what the service has signed.
RelayAttestedScore(k) == Signed("service", k)

\* ping_heartbeat, and the submissions that carry no signature.
PingHeartbeat ==
    /\ RecordServiceActivity
    /\ UNCHANGED <<now, signerVars, keyVars>>

SetHeartbeatAlertThreshold(n) ==
    /\ alertAfter' = n
    /\ UNCHANGED <<now, signerVars, keyVars, lastActivity, alerted, alerts>>

\* Mutant of Silent: an alert does not silence the next.
SilentStill == lastActivity # 0 /\ now - lastActivity > alertAfter

Silent == ~alerted /\ lastActivity # 0 /\ now - lastActivity > alertAfter

\* check_service_silence, at the start of every read of a score.
CheckServiceSilence ==
    /\ Silent
    /\ alerted' = TRUE
    /\ alerts' = alerts + 1
    /\ UNCHANGED <<now, signerVars, keyVars, lastActivity, alertAfter>>

Tick ==
    /\ now < MaxTime
    /\ now' = now + 1
    /\ UNCHANGED <<signerVars, keyVars, beatVars>>

-----------------------------------------------------------------------------

\* The clock starts at 1: the ledger's time is never 0.
Init ==
    /\ now = 1
    /\ serviceSet = {} /\ threshold = 0
    /\ addedAt = [s \in Signers |-> 0]
    /\ ttl = 0 /\ grace = 0
    /\ active = [slot \in Slots |-> NoKey]
    /\ pending = [slot \in Slots |-> NoPending]
    /\ revokedFrom = [k \in Keys |-> Never]
    /\ lastActivity = 0
    /\ alertAfter \in Silences
    /\ alerted = FALSE /\ alerts = 0

Next ==
    \/ \E s \in Signers : AddServiceSigner(s) \/ RemoveServiceSigner(s)
    \/ \E t \in 0 .. MaxServiceSigners + 1 : SetServiceThreshold(t)
    \/ \E a \in Ages : SetSignerRotationTtl(a) \/ SetSignerRotationGrace(a)
    \/ \E slot \in Slots, k \in Keys : SetPubkey(slot, k)
    \/ \E slot \in Slots, k \in Keys, overlap \in Overlaps : RotatePubkey(slot, k, overlap)
    \/ \E k \in Keys, from \in 1..MaxTime : SetRevokedKey(k, from)
    \/ \E k \in Keys : ClearRevokedKey(k)
    \/ \E set \in SUBSET (Signers \cup {ServiceAccount}), k \in Keys :
         \/ "service" \in Slots /\ SubmitScore(set, k)
         \/ "service" \in Slots /\ SubmitScoresBatchAttested(set, k)
         \/ "aggregate" \in Slots /\ SubmitThresholdSigned(set, k)
    \/ "service" \in Slots /\ \E k \in Keys : RelayAttestedScore(k)
    \/ PingHeartbeat
    \/ \E n \in Silences : SetHeartbeatAlertThreshold(n)
    \/ CheckServiceSilence
    \/ Tick

Spec == Init /\ [][Next]_vars

-----------------------------------------------------------------------------

\* Every variable has its type.
TypeOK ==
    /\ now \in 1..MaxTime
    /\ serviceSet \in SUBSET Signers
    /\ threshold \in 0..MaxServiceSigners
    /\ addedAt \in [Signers -> 0..MaxTime]
    /\ ttl \in Nat /\ grace \in Nat
    /\ active \in [Slots -> Keys \cup {NoKey}]
    /\ pending \in [Slots -> [key : Keys, expiry : Nat] \cup {NoPending}]
    /\ revokedFrom \in [Keys -> 1..Never]
    /\ lastActivity \in 0..MaxTime
    /\ alertAfter \in Silences
    /\ alerted \in BOOLEAN /\ alerts \in Nat

\* Whatever the order of additions, removals and changes of the threshold,
\* the signers can reach it, and exactly the members of the set have a
\* recorded age: a member without one would never expire, and a former
\* member's age would be found again when it returns.
SignersAreKnown ==
    /\ Cardinality(serviceSet) <= MaxServiceSigners
    /\ threshold <= Cardinality(serviceSet)
    /\ \A s \in Signers : s \in serviceSet <=> addedAt[s] # 0

\* The key installed or announced last.
NewestKey(slot) == IF pending[slot] # NoPending THEN pending[slot].key ELSE active[slot]

\* A rotation has no gap: once the newest key of a slot is accepted it stays
\* accepted, through the end of the overlap and its completion, until another
\* rotation is ordered or a revocation takes effect.
HandoverHasNoGap ==
    [][\A slot \in Slots :
         /\ Accepts(slot, NewestKey(slot)) /\ NewestKey(slot)' = NewestKey(slot)
         /\ pending'[slot] \in {pending[slot], NoPending}
         => \/ Accepts(slot, NewestKey(slot))'
            \/ Revoked(NewestKey(slot))' \/ Revoked(SettledKey(slot))']_vars

\* A revoked key is refused from then on, in both slots and whatever is
\* rotated, set or revoked again, until its revocation is cleared.
RevokedStaysRefused ==
    [][\A k \in Keys : Revoked(k) /\ ~ClearRevokedKey(k)
         => \A slot \in Slots : ~Accepts(slot, k)']_vars

\* What the comments of the verification say: once the overlap has elapsed
\* the old key validates nothing any more, unless it is set again.  The
\* completion is left to the next signature; a rotation ordered before it
\* forgets the key whose overlap has elapsed, and the old key is back.
RetiredStaysRetired ==
    [][\A slot \in Slots, k \in Keys :
         Elapsed(slot) /\ k # pending[slot].key /\ Accepts(slot, k)'
         => active'[slot] # active[slot] \/ k = NewestKey(slot)']_vars

\* A silence raises one alert, and the next silence raises one again: the
\* flag says exactly whether an alert was raised since the last sign of life.
OneAlertPerSilence == alerts = (IF alerted THEN 1 ELSE 0)

=============================================================================
