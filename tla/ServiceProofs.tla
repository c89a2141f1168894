--------------------------- MODULE ServiceProofs ---------------------------
(***************************************************************************)
(* What Service guarantees for every set of signers and keys and every     *)
(* bound.  The inductive invariant has a part for the signers, one for the *)
(* keys and one for the signs of life; an action changes one or two.       *)
(***************************************************************************)
EXTENDS Service, FiniteSetTheorems, TLAPS

SignersOK ==
    /\ serviceSet \in SUBSET Signers
    /\ threshold \in 0..MaxServiceSigners
    /\ addedAt \in [Signers -> 0..MaxTime]
    /\ ttl \in Nat /\ grace \in Nat
    /\ SignersAreKnown

KeysOK ==
    /\ active \in [Slots -> Keys \cup {NoKey}]
    /\ pending \in [Slots -> [key : Keys, expiry : Nat] \cup {NoPending}]
    /\ revokedFrom \in [Keys -> 1..Never]

BeatsOK ==
    /\ lastActivity \in 0..MaxTime
    /\ alertAfter \in Silences
    /\ alerted \in BOOLEAN /\ alerts \in Nat
    /\ OneAlertPerSilence

Inv == now \in 1..MaxTime /\ SignersOK /\ KeysOK /\ BeatsOK

\* Adding and removing a signer.
LEMMA SizeOfChange ==
    ASSUME NEW S \in SUBSET Signers, NEW s \in Signers
    PROVE  /\ Cardinality(S) \in Nat
           /\ s \notin S => Cardinality(S \cup {s}) = Cardinality(S) + 1
           /\ s \in S => Cardinality(S \ {s}) = Cardinality(S) - 1
<1>1. IsFiniteSet(S)
  BY FS_Subset, SignersTyped
<1>2. QED
  BY <1>1, FS_CardinalityType, FS_AddElement, FS_RemoveElement

LEMMA SizeIsNat == ASSUME NEW S \in SUBSET Signers PROVE Cardinality(S) \in Nat
<1>1. IsFiniteSet(S)
  BY FS_Subset, SignersTyped
<1>2. QED
  BY <1>1, FS_CardinalityType

\* A part whose variables do not change is kept.
LEMMA UnchangedParts ==
    /\ SignersOK /\ UNCHANGED signerVars => SignersOK'
    /\ KeysOK /\ UNCHANGED keyVars => KeysOK'
    /\ BeatsOK /\ UNCHANGED beatVars => BeatsOK'
<1>1. SignersOK /\ UNCHANGED signerVars => SignersOK'
  BY DEF SignersOK, signerVars, SignersAreKnown
<1>2. KeysOK /\ UNCHANGED keyVars => KeysOK'
  BY DEF KeysOK, keyVars
<1>3. BeatsOK /\ UNCHANGED beatVars => BeatsOK'
  BY DEF BeatsOK, beatVars, OneAlertPerSilence
<1>4. QED
  BY <1>1, <1>2, <1>3

LEMMA InitInv == Init => Inv
<1> SUFFICES ASSUME Init PROVE Inv
  OBVIOUS
<1>1. now \in 1..MaxTime
  BY NumbersTyped DEF Init
<1>2. SignersOK
  BY NumbersTyped, FS_EmptySet DEF Init, SignersOK, SignersAreKnown
<1>3. KeysOK
  BY NumbersTyped DEF Init, KeysOK, Never
<1>4. BeatsOK
  <2>1. alerted \in BOOLEAN
    BY DEF Init
  <2>2. QED
    BY <2>1, NumbersTyped DEF Init, BeatsOK, OneAlertPerSilence
<1>5. QED
  BY <1>1, <1>2, <1>3, <1>4 DEF Inv

\* The signers' part.
LEMMA SignersKept ==
    ASSUME Inv,
           \/ \E s \in Signers : AddServiceSigner(s) \/ RemoveServiceSigner(s)
           \/ \E t \in 0 .. MaxServiceSigners + 1 : SetServiceThreshold(t)
           \/ \E a \in Ages : SetSignerRotationTtl(a) \/ SetSignerRotationGrace(a)
    PROVE  SignersOK'
<1>1. /\ SignersOK /\ now \in 1..MaxTime
      /\ serviceSet \in SUBSET Signers /\ Cardinality(serviceSet) \in Nat
  BY SizeIsNat DEF Inv, SignersOK
<1>2. ASSUME NEW s \in Signers, AddServiceSigner(s)
      PROVE  SignersOK'
  <2>1. Cardinality(serviceSet') = Cardinality(serviceSet) + 1 /\ serviceSet' \in SUBSET Signers
    BY <1>1, <1>2, SizeOfChange DEF AddServiceSigner
  <2>2. addedAt' \in [Signers -> 0..MaxTime]
    BY <1>1, <1>2, NumbersTyped DEF AddServiceSigner, SignersOK
  <2>3. \A r \in Signers : r \in serviceSet' <=> addedAt'[r] # 0
    BY <1>1, <1>2, NumbersTyped DEF AddServiceSigner, SignersOK, SignersAreKnown
  <2>4. Cardinality(serviceSet') <= MaxServiceSigners /\ threshold' <= Cardinality(serviceSet')
    BY <1>1, <1>2, <2>1, NumbersTyped DEF AddServiceSigner, SignersOK, SignersAreKnown
  <2>5. QED
    BY <1>1, <1>2, <2>1, <2>2, <2>3, <2>4 DEF AddServiceSigner, SignersOK, SignersAreKnown
<1>3. ASSUME NEW s \in Signers, RemoveServiceSigner(s)
      PROVE  SignersOK'
  <2>1. /\ Cardinality(serviceSet \ {s}) = Cardinality(serviceSet) - 1
        /\ serviceSet \ {s} \in SUBSET Signers
    BY <1>1, <1>3, SizeOfChange DEF RemoveServiceSigner
  <2>2. Cardinality(serviceSet \ {s}) \in Nat
    BY <2>1, SizeIsNat
  <2>3. /\ FittedThreshold(serviceSet \ {s}) \in 0..MaxServiceSigners
        /\ FittedThreshold(serviceSet \ {s}) <= Cardinality(serviceSet \ {s})
    BY <1>1, <2>1, <2>2, NumbersTyped DEF FittedThreshold, SignersOK, SignersAreKnown
  <2>4. addedAt' \in [Signers -> 0..MaxTime]
    BY <1>1, <1>3, NumbersTyped DEF RemoveServiceSigner, SignersOK
  <2>5. \A r \in Signers : r \in serviceSet' <=> addedAt'[r] # 0
    BY <1>1, <1>3 DEF RemoveServiceSigner, SignersOK, SignersAreKnown
  <2>6. Cardinality(serviceSet') <= MaxServiceSigners
    BY <1>1, <1>3, <2>1, NumbersTyped DEF RemoveServiceSigner, SignersOK, SignersAreKnown
  <2>7. QED
    BY <1>1, <1>3, <2>1, <2>3, <2>4, <2>5, <2>6 DEF RemoveServiceSigner, SignersOK, SignersAreKnown
<1>4. ASSUME NEW t \in 0 .. MaxServiceSigners + 1, SetServiceThreshold(t)
      PROVE  SignersOK'
  <2>1. threshold' \in 0..MaxServiceSigners /\ threshold' <= Cardinality(serviceSet)
    BY <1>1, <1>4, NumbersTyped DEF SetServiceThreshold, SignersOK, SignersAreKnown
  <2>2. QED
    BY <1>1, <1>4, <2>1 DEF SetServiceThreshold, SignersOK, SignersAreKnown
<1>5. ASSUME NEW a \in Ages, SetSignerRotationTtl(a) \/ SetSignerRotationGrace(a)
      PROVE  SignersOK'
  <2>1. ttl' \in Nat /\ grace' \in Nat
    BY <1>1, <1>5, NumbersTyped DEF SetSignerRotationTtl, SetSignerRotationGrace, SignersOK
  <2>2. QED
    BY <1>1, <1>5, <2>1
       DEF SetSignerRotationTtl, SetSignerRotationGrace, SignersOK, SignersAreKnown
<1>6. QED
  BY <1>2, <1>3, <1>4, <1>5

\* What a signature, an order or a revocation leaves in the slots is typed.
LEMMA KeysKept ==
    ASSUME Inv,
           \/ \E slot \in Slots, k \in Keys : SetPubkey(slot, k)
           \/ \E slot \in Slots, k \in Keys, overlap \in Overlaps : RotatePubkey(slot, k, overlap)
           \/ \E k \in Keys, from \in 1..MaxTime : SetRevokedKey(k, from)
           \/ \E k \in Keys : ClearRevokedKey(k)
           \/ \E slot \in Slots, k \in Keys : Signed(slot, k)
    PROVE  KeysOK'
<1>1. KeysOK /\ now \in 1..MaxTime
  BY DEF Inv
<1>2. ASSUME NEW slot \in Slots, NEW k \in Keys, SetPubkey(slot, k)
      PROVE  KeysOK'
  BY <1>1, <1>2 DEF SetPubkey, KeysOK
<1>3. ASSUME NEW slot \in Slots, NEW k \in Keys, NEW overlap \in Overlaps,
             RotatePubkey(slot, k, overlap)
      PROVE  KeysOK'
  <2>1. CASE overlap = 0
    BY <1>1, <1>3, <2>1 DEF RotatePubkey, KeysOK
  <2>2. CASE overlap # 0
    <3>1. [key |-> k, expiry |-> now + overlap] \in [key : Keys, expiry : Nat]
      BY <1>1, NumbersTyped
    <3>2. QED
      BY <1>1, <1>3, <2>2, <3>1 DEF RotatePubkey, KeysOK
  <2>3. QED
    BY <2>1, <2>2
<1>4. ASSUME NEW k \in Keys, NEW from \in 1..MaxTime, SetRevokedKey(k, from)
      PROVE  KeysOK'
  <2>1. EarlierOf(revokedFrom[k], from) \in 1..Never
    BY <1>1, NumbersTyped DEF EarlierOf, KeysOK, Never
  <2>2. QED
    BY <1>1, <1>4, <2>1 DEF SetRevokedKey, KeysOK
<1>5. ASSUME NEW k \in Keys, ClearRevokedKey(k)
      PROVE  KeysOK'
  <2>1. Never \in 1..Never
    BY NumbersTyped DEF Never
  <2>2. QED
    BY <1>1, <1>5, <2>1 DEF ClearRevokedKey, KeysOK
<1>6. ASSUME NEW slot \in Slots, NEW k \in Keys, Signed(slot, k)
      PROVE  KeysOK'
  <2>1. SettledKey(slot) \in Keys \cup {NoKey}
    BY <1>1 DEF SettledKey, Elapsed, KeysOK
  <2>2. SettledPending(slot) \in [key : Keys, expiry : Nat] \cup {NoPending}
    BY <1>1 DEF SettledPending, KeysOK
  <2>3. QED
    BY <1>1, <1>6, <2>1, <2>2 DEF Signed, KeysOK
<1>7. QED
  BY <1>2, <1>3, <1>4, <1>5, <1>6

\* A sign of life and an alert.
LEMMA BeatsKept ==
    ASSUME Inv,
           RecordServiceActivity \/ CheckServiceSilence
             \/ \E n \in Silences : SetHeartbeatAlertThreshold(n)
    PROVE  BeatsOK'
<1>1. BeatsOK /\ now \in 1..MaxTime
  BY DEF Inv
<1>2. CASE RecordServiceActivity
  <2>1. alerted' \in BOOLEAN
    BY <1>2 DEF RecordServiceActivity
  <2>2. alerts' = 0 /\ lastActivity' \in 0..MaxTime
    BY <1>1, <1>2, NumbersTyped DEF RecordServiceActivity
  <2>3. QED
    BY <1>1, <1>2, <2>1, <2>2 DEF RecordServiceActivity, BeatsOK, OneAlertPerSilence
<1>3. CASE CheckServiceSilence
  <2>1. alerts = 0
    BY <1>1, <1>3 DEF CheckServiceSilence, Silent, BeatsOK, OneAlertPerSilence
  <2>2. alerted' \in BOOLEAN /\ alerts' = 1
    BY <1>3, <2>1 DEF CheckServiceSilence
  <2>3. QED
    BY <1>1, <1>3, <2>2 DEF CheckServiceSilence, BeatsOK, OneAlertPerSilence
<1>4. ASSUME NEW n \in Silences, SetHeartbeatAlertThreshold(n)
      PROVE  BeatsOK'
  BY <1>1, <1>4 DEF SetHeartbeatAlertThreshold, BeatsOK, OneAlertPerSilence
<1>5. QED
  BY <1>2, <1>3, <1>4

\* An accepted signature in a slot, whichever operation brings it.
IsSigned == \E slot \in Slots, k \in Keys : Signed(slot, k)

LEMMA SubmissionsAreSigned ==
    ASSUME \/ \E set \in SUBSET (Signers \cup {ServiceAccount}), k \in Keys :
                \/ "service" \in Slots /\ SubmitScore(set, k)
                \/ "service" \in Slots /\ SubmitScoresBatchAttested(set, k)
                \/ "aggregate" \in Slots /\ SubmitThresholdSigned(set, k)
           \/ "service" \in Slots /\ \E k \in Keys : RelayAttestedScore(k)
    PROVE  IsSigned
  BY DEF IsSigned, SubmitScore, SubmitScoresBatchAttested, SubmitThresholdSigned, RelayAttestedScore

\* The cases of a step.
OfSigners ==
    \/ \E s \in Signers : AddServiceSigner(s) \/ RemoveServiceSigner(s)
    \/ \E t \in 0 .. MaxServiceSigners + 1 : SetServiceThreshold(t)
    \/ \E a \in Ages : SetSignerRotationTtl(a) \/ SetSignerRotationGrace(a)
OfKeys ==
    \/ \E slot \in Slots, k \in Keys : SetPubkey(slot, k)
    \/ \E slot \in Slots, k \in Keys, overlap \in Overlaps : RotatePubkey(slot, k, overlap)
    \/ \E k \in Keys, from \in 1..MaxTime : SetRevokedKey(k, from)
    \/ \E k \in Keys : ClearRevokedKey(k)
OfBeats ==
    PingHeartbeat \/ CheckServiceSilence \/ \E n \in Silences : SetHeartbeatAlertThreshold(n)

LEMMA StepCases == Next => OfSigners \/ OfKeys \/ IsSigned \/ OfBeats \/ Tick
  BY SubmissionsAreSigned DEF Next, OfSigners, OfKeys, OfBeats

\* What each of them leaves alone.
LEMMA Frames ==
    /\ OfSigners => UNCHANGED <<now, keyVars, beatVars>>
    /\ OfKeys => UNCHANGED <<now, signerVars, beatVars>>
    /\ IsSigned => UNCHANGED <<now, signerVars, revokedFrom>> /\ RecordServiceActivity
    /\ OfBeats => UNCHANGED <<now, signerVars, keyVars>>
    /\ Tick => UNCHANGED <<signerVars, keyVars, beatVars>> /\ now' = now + 1 /\ now < MaxTime
<1>1. OfSigners => UNCHANGED <<now, keyVars, beatVars>>
  BY DEF OfSigners, AddServiceSigner, RemoveServiceSigner, SetServiceThreshold,
         SetSignerRotationTtl, SetSignerRotationGrace
<1>2. OfKeys => UNCHANGED <<now, signerVars, beatVars>>
  BY DEF OfKeys, SetPubkey, RotatePubkey, SetRevokedKey, ClearRevokedKey
<1>3. IsSigned => UNCHANGED <<now, signerVars, revokedFrom>> /\ RecordServiceActivity
  BY DEF IsSigned, Signed
<1>4. OfBeats => UNCHANGED <<now, signerVars, keyVars>>
  BY DEF OfBeats, PingHeartbeat, CheckServiceSilence, SetHeartbeatAlertThreshold
<1>5. Tick => UNCHANGED <<signerVars, keyVars, beatVars>> /\ now' = now + 1 /\ now < MaxTime
  BY DEF Tick
<1>6. QED
  BY <1>1, <1>2, <1>3, <1>4, <1>5

LEMMA NextInv == Inv /\ [Next]_vars => Inv'
<1> SUFFICES ASSUME Inv, [Next]_vars PROVE Inv'
  OBVIOUS
<1>0. now \in 1..MaxTime /\ SignersOK /\ KeysOK /\ BeatsOK
  BY DEF Inv
<1>1. CASE OfSigners
  <2>1. SignersOK'
    BY <1>1, SignersKept DEF OfSigners
  <2>2. QED
    BY <1>0, <1>1, <2>1, Frames, UnchangedParts DEF Inv
<1>2. CASE OfKeys
  <2>1. KeysOK'
    BY <1>2, KeysKept DEF OfKeys
  <2>2. QED
    BY <1>0, <1>2, <2>1, Frames, UnchangedParts DEF Inv
<1>3. CASE IsSigned
  <2>1. KeysOK'
    BY <1>3, KeysKept DEF IsSigned
  <2>2. BeatsOK'
    BY <1>3, Frames, BeatsKept
  <2>3. QED
    BY <1>0, <1>3, <2>1, <2>2, Frames, UnchangedParts DEF Inv
<1>4. CASE OfBeats
  <2>1. BeatsOK'
    BY <1>4, BeatsKept DEF OfBeats, PingHeartbeat
  <2>2. QED
    BY <1>0, <1>4, <2>1, Frames, UnchangedParts DEF Inv
<1>5. CASE Tick
  <2>1. now' \in 1..MaxTime
    BY <1>0, <1>5, Frames, NumbersTyped
  <2>2. QED
    BY <1>0, <1>5, <2>1, Frames, UnchangedParts DEF Inv
<1>6. CASE UNCHANGED vars
  BY <1>0, <1>6, UnchangedParts DEF Inv, vars
<1>7. QED
  BY <1>1, <1>2, <1>3, <1>4, <1>5, <1>6, StepCases

\* Every variable keeps its type.
THEOREM ServiceTypeCorrect == Spec => []TypeOK
<1>1. Inv => TypeOK
  BY DEF Inv, SignersOK, KeysOK, BeatsOK, TypeOK
<1>2. QED
  BY <1>1, InitInv, NextInv, PTL DEF Spec

\* add_service_signer, remove_service_signer and set_service_threshold keep
\* the threshold within reach and the recorded ages exact.
THEOREM SignersStayKnown == Spec => []SignersAreKnown
<1>1. Inv => SignersAreKnown
  BY DEF Inv, SignersOK
<1>2. QED
  BY <1>1, InitInv, NextInv, PTL DEF Spec

\* check_service_silence raises one alert per silence.
THEOREM AlertsAreSingle == Spec => []OneAlertPerSilence
<1>1. Inv => OneAlertPerSilence
  BY DEF Inv, BeatsOK
<1>2. QED
  BY <1>1, InitInv, NextInv, PTL DEF Spec

\* A revocation in force stays in force unless it is cleared.
LEMMA RevocationsStay ==
    ASSUME Inv, Next, NEW k \in Keys, Revoked(k), ~ClearRevokedKey(k)
    PROVE  Revoked(k)'
<1>1. now \in 1..MaxTime /\ revokedFrom \in [Keys -> 1..Never]
  BY DEF Inv, KeysOK
<1>2. revokedFrom[k] \in Nat /\ now \in Nat /\ now >= revokedFrom[k]
  BY <1>1, NumbersTyped DEF Revoked, Never
<1>3. now' \in Nat /\ now' >= now
  BY <1>2, StepCases, Frames
<1>4. revokedFrom'[k] \in Nat /\ revokedFrom'[k] <= revokedFrom[k]
  <2>1. CASE revokedFrom' = revokedFrom
    BY <1>2, <2>1
  <2>2. ASSUME NEW j \in Keys, NEW from \in 1..MaxTime, SetRevokedKey(j, from)
        PROVE  revokedFrom'[k] \in Nat /\ revokedFrom'[k] <= revokedFrom[k]
    BY <1>1, <1>2, <2>2, NumbersTyped DEF SetRevokedKey, EarlierOf
  <2>3. ASSUME NEW j \in Keys, ClearRevokedKey(j)
        PROVE  revokedFrom'[k] \in Nat /\ revokedFrom'[k] <= revokedFrom[k]
    <3>1. j # k
      BY <2>3
    <3>2. QED
      BY <1>1, <1>2, <2>3, <3>1 DEF ClearRevokedKey
  <2>4. OfKeys => \/ revokedFrom' = revokedFrom
                  \/ \E j \in Keys, from \in 1..MaxTime : SetRevokedKey(j, from)
                  \/ \E j \in Keys : ClearRevokedKey(j)
    BY DEF OfKeys, SetPubkey, RotatePubkey
  <2>5. ~OfKeys => revokedFrom' = revokedFrom
    BY StepCases, Frames DEF keyVars
  <2>6. QED
    BY <2>1, <2>2, <2>3, <2>4, <2>5
<1>5. QED
  BY <1>2, <1>3, <1>4 DEF Revoked

\* verify_signature and verify_threshold_attestation refuse a revoked key
\* until clear_revoked_key.
THEOREM RevocationIsLasting == Spec => RevokedStaysRefused
<1> DEFINE Refused == \A k \in Keys : Revoked(k) /\ ~ClearRevokedKey(k)
                        => \A slot \in Slots : ~Accepts(slot, k)'
<1>1. Inv /\ Next => Refused
  <2> SUFFICES ASSUME Inv, Next, NEW k \in Keys, Revoked(k), ~ClearRevokedKey(k), NEW slot \in Slots
               PROVE  ~Accepts(slot, k)'
    OBVIOUS
  <2>1. Revoked(k)'
    BY RevocationsStay
  <2>2. QED
    BY <2>1 DEF Accepts
<1>2. Inv /\ [Next]_vars => [Refused]_vars
  BY <1>1
<1>3. QED
  BY <1>2, InitInv, NextInv, PTL DEF Spec, RevokedStaysRefused

\* When the newest key of a slot is accepted: the overlap of a pending key is
\* running or has made it the active one.
NewestRule ==
    KeysOK /\ now \in Nat =>
      \A slot \in Slots :
        Accepts(slot, NewestKey(slot)) <=>
          /\ SettledKey(slot) # NoKey /\ ~Revoked(SettledKey(slot))
          /\ NewestKey(slot) = SettledKey(slot) \/ ~Revoked(NewestKey(slot))

LEMMA NewestAccepted == NewestRule
<1> SUFFICES ASSUME KeysOK, now \in Nat, NEW slot \in Slots
             PROVE  Accepts(slot, NewestKey(slot)) <=>
                      /\ SettledKey(slot) # NoKey /\ ~Revoked(SettledKey(slot))
                      /\ NewestKey(slot) = SettledKey(slot) \/ ~Revoked(NewestKey(slot))
  BY DEF NewestRule
<1>1. pending[slot] \in [key : Keys, expiry : Nat] \cup {NoPending}
  BY DEF KeysOK
<1>2. CASE pending[slot] = NoPending
  <2>1. NewestKey(slot) = SettledKey(slot)
    BY <1>2 DEF NewestKey, SettledKey, Elapsed
  <2>2. QED
    BY <2>1 DEF Accepts
<1>3. CASE Elapsed(slot)
  <2>1. NewestKey(slot) = SettledKey(slot)
    BY <1>3 DEF NewestKey, SettledKey, Elapsed
  <2>2. QED
    BY <2>1 DEF Accepts
<1>4. CASE pending[slot] # NoPending /\ ~Elapsed(slot)
  <2>1. pending[slot].expiry \in Nat /\ now <= pending[slot].expiry
    BY <1>1, <1>4 DEF Elapsed
  <2>2. InOverlap(SettledPending(slot), NewestKey(slot))
    BY <1>4, <2>1 DEF InOverlap, SettledPending, NewestKey
  <2>3. QED
    BY <2>2 DEF Accepts
<1>5. QED
  BY <1>2, <1>3, <1>4

\* A step without a new order to the slot keeps a key in it.
LEMMA SlotStaysFilled ==
    ASSUME Inv, Next, NEW slot \in Slots, SettledKey(slot) # NoKey
    PROVE  pending'[slot] \in {pending[slot], NoPending} => SettledKey(slot)' # NoKey
<1> SUFFICES ASSUME pending'[slot] \in {pending[slot], NoPending} PROVE SettledKey(slot)' # NoKey
  OBVIOUS
<1>1. KeysOK /\ now \in 1..MaxTime
  BY DEF Inv
<1>2. \A j \in Slots : pending[j] # NoPending => pending[j].key \in Keys /\ pending[j].key # NoKey
  BY <1>1, KeysTyped DEF KeysOK
<1>3. CASE UNCHANGED <<active, pending>>
  <2>1. now \in Nat /\ now' \in Nat /\ now' >= now
    BY <1>1, NumbersTyped, StepCases, Frames
  <2>2. CASE pending[slot] = NoPending
    BY <1>3, <2>2 DEF SettledKey, Elapsed
  <2>3. CASE pending[slot] # NoPending
    <3>1. pending[slot].expiry \in Nat
      BY <1>1, <2>3 DEF KeysOK
    <3>2. Elapsed(slot) => Elapsed(slot)'
      BY <1>3, <2>1, <3>1 DEF Elapsed
    <3>3. QED
      BY <1>2, <1>3, <2>3, <3>2 DEF SettledKey
  <2>4. QED
    BY <2>2, <2>3
<1>4. ASSUME NEW j \in Slots, NEW k \in Keys, SetPubkey(j, k)
      PROVE  SettledKey(slot)' # NoKey
  BY <1>1, <1>2, <1>4, KeysTyped DEF SetPubkey, SettledKey, Elapsed, KeysOK
<1>5. ASSUME NEW j \in Slots, NEW k \in Keys, NEW overlap \in Overlaps, RotatePubkey(j, k, overlap)
      PROVE  SettledKey(slot)' # NoKey
  <2>1. CASE j # slot
    <3>1. active'[slot] = active[slot] /\ pending'[slot] = pending[slot] /\ now' = now
      BY <1>1, <1>5, <2>1 DEF RotatePubkey, KeysOK
    <3>2. QED
      BY <3>1 DEF SettledKey, Elapsed
  <2>2. CASE j = slot /\ overlap = 0
    BY <1>1, <1>5, <2>2, KeysTyped DEF RotatePubkey, SettledKey, Elapsed, KeysOK
  <2>3. CASE j = slot /\ overlap # 0
    <3>1. pending'[slot] # NoPending
      BY <1>1, <1>5, <2>3, KeysTyped DEF RotatePubkey, NoPending, KeysOK
    <3>2. pending'[slot] = pending[slot] /\ active' = active /\ now' = now
      BY <1>5, <2>3, <3>1 DEF RotatePubkey
    <3>3. QED
      BY <3>2 DEF SettledKey, Elapsed
  <2>4. QED
    BY <2>1, <2>2, <2>3
<1>6. ASSUME NEW j \in Slots, NEW k \in Keys, Signed(j, k)
      PROVE  SettledKey(slot)' # NoKey
  <2>1. CASE j # slot
    <3>1. active'[slot] = active[slot] /\ pending'[slot] = pending[slot] /\ now' = now
      BY <1>1, <1>6, <2>1 DEF Signed, KeysOK
    <3>2. QED
      BY <3>1 DEF SettledKey, Elapsed
  <2>2. CASE j = slot
    <3>1. active'[slot] = SettledKey(slot)
      BY <1>1, <1>6, <2>2 DEF Signed, KeysOK
    <3>2. pending'[slot] # NoPending => pending'[slot] = pending[slot]
      OBVIOUS
    <3>3. QED
      BY <1>2, <3>1, <3>2 DEF SettledKey, Elapsed
  <2>3. QED
    BY <2>1, <2>2
<1>7. ~OfKeys /\ ~IsSigned => UNCHANGED <<active, pending>>
  BY StepCases, Frames DEF keyVars
<1>8. OfKeys => \/ UNCHANGED <<active, pending>>
                \/ \E j \in Slots, k \in Keys : SetPubkey(j, k)
                \/ \E j \in Slots, k \in Keys, overlap \in Overlaps : RotatePubkey(j, k, overlap)
  BY DEF OfKeys, SetRevokedKey, ClearRevokedKey
<1>9. QED
  BY <1>3, <1>4, <1>5, <1>6, <1>7, <1>8 DEF IsSigned

\* rotate_service_pubkey and rotate_aggregate_service_pubkey hand over
\* without a gap.
THEOREM RotationHasNoGap == Spec => HandoverHasNoGap
<1> DEFINE NoGap(slot) ==
      /\ Accepts(slot, NewestKey(slot)) /\ NewestKey(slot)' = NewestKey(slot)
      /\ pending'[slot] \in {pending[slot], NoPending}
      => \/ Accepts(slot, NewestKey(slot))'
         \/ Revoked(NewestKey(slot))' \/ Revoked(SettledKey(slot))'
<1>1. ASSUME Inv, Inv', Next, NEW slot \in Slots
      PROVE  NoGap(slot)
  <2> SUFFICES ASSUME Accepts(slot, NewestKey(slot)), pending'[slot] \in {pending[slot], NoPending},
                      ~Revoked(NewestKey(slot))', ~Revoked(SettledKey(slot))'
               PROVE  Accepts(slot, NewestKey(slot))'
    OBVIOUS
  <2>1. KeysOK /\ now \in Nat /\ KeysOK' /\ now' \in Nat
    BY <1>1, NumbersTyped DEF Inv
  <2>2. SettledKey(slot) # NoKey
    BY <2>1, NewestAccepted DEF NewestRule
  <2>3. SettledKey(slot)' # NoKey
    BY <1>1, <2>2, SlotStaysFilled
  <2>4. NewestRule'
    BY NewestAccepted, PTL
  <2>5. QED
    BY <2>1, <2>3, <2>4 DEF NewestRule
<1>2. Inv /\ Inv' /\ [Next]_vars => [\A slot \in Slots : NoGap(slot)]_vars
  BY <1>1
<1>3. QED
  BY <1>2, InitInv, NextInv, PTL DEF Spec, HandoverHasNoGap

=============================================================================
