-------------------------- MODULE TimelocksProofs --------------------------
(***************************************************************************)
(* Proofs about Timelocks, for any limits, delays and number of proposals. *)
(*                                                                         *)
(* The invariant says what every open announcement already guarantees:     *)
(* queued values and bundles are within the limits, an upgrade and a       *)
(* proposal carry a delay of at least the minimum, and the pending list is *)
(* the set of pending records.                                             *)
(***************************************************************************)
EXTENDS Timelocks, FiniteSetTheorems, TLAPS

\* Queued values and bundles were checked when they were announced.
CheckedWhenQueued ==
    /\ \A p \in Queueable \ {"staleness"} : queued[p] # NoChange => InBounds(p, queued[p].value)
    /\ bundle # NoBundle => InBounds("threshold", bundle.threshold) /\ InBounds("cooldown", bundle.cooldown)

\* Upgrades and proposals wait at least the least upgrade delay.
DelaysHold ==
    /\ upgrade # NoUpgrade => upgrade.after >= upgrade.at + MinUpgradeDelay
    /\ \A i \in Ids : records[i] # NoRecord => records[i].lock >= MinUpgradeDelay

\* No record exists beyond the ids that were issued.
IdsAreFresh == \A i \in Ids : i >= nextId => records[i] = NoRecord

TimelockInv == TypeOK /\ CheckedWhenQueued /\ DelaysHold /\ IdsAreFresh /\ PendingMatchesRecords

\* A record in the pending state, or any record that is there, is well typed.
LEMMA RecordFacts ==
    ASSUME TypeOK, NEW i \in Ids
    PROVE  /\ NoRecord \notin Record
           /\ records[i].status \in Statuses => records[i] \in Record
           /\ records[i] \in Record => records[i].status \in Statuses /\ records[i] # NoRecord
  <1>1. records[i] \in Record \cup {NoRecord}
    BY DEF TypeOK
  <1>2. NoRecord.status \notin Statuses
    BY DEF NoRecord, Statuses
  <1>3. \A r \in Record : r.status \in Statuses
    BY DEF Record
  <1> QED
    BY <1>1, <1>2, <1>3, Zenon

\* Marking records that are there changes their status and nothing else.
LEMMA MarkedFacts ==
    ASSUME TypeOK, NEW S, \A i \in S : i \in Ids /\ records[i] \in Record, NEW s \in Statuses
    PROVE  /\ Marked(S, s) \in [Ids -> Record \cup {NoRecord}]
           /\ \A i \in Ids : i \notin S => Marked(S, s)[i] = records[i]
           /\ \A i \in S : /\ Marked(S, s)[i] \in Record /\ Marked(S, s)[i].status = s
                           /\ Marked(S, s)[i].lock = records[i].lock
  <1>1. \A i \in Ids : records[i] \in Record \cup {NoRecord}
    BY DEF TypeOK
  <1>2. \A r \in Record : /\ [r EXCEPT !.status = s] \in Record
                          /\ [r EXCEPT !.status = s].status = s
                          /\ [r EXCEPT !.status = s].lock = r.lock
    BY DEF Record
  <1>3. ASSUME NEW i \in Ids
        PROVE  Marked(S, s)[i] = IF i \in S THEN [records[i] EXCEPT !.status = s] ELSE records[i]
    BY DEF Marked
  <1>4. Marked(S, s) = [i \in Ids |-> Marked(S, s)[i]]
    BY DEF Marked
  <1>5. \A i \in Ids : Marked(S, s)[i] \in Record \cup {NoRecord}
    BY <1>1, <1>2, <1>3
  <1>6. Marked(S, s) \in [Ids -> Record \cup {NoRecord}]
    BY <1>4, <1>5
  <1>7. \A i \in S : /\ Marked(S, s)[i] \in Record /\ Marked(S, s)[i].status = s
                     /\ Marked(S, s)[i].lock = records[i].lock
    BY <1>2, <1>3
  <1> QED
    BY <1>3, <1>6, <1>7

\* The pending list is finite, and so are its parts.
LEMMA PendingFinite ==
    ASSUME TypeOK
    PROVE  \A T : T \subseteq pending => /\ IsFiniteSet(T) /\ Cardinality(T) \in Nat
                                         /\ Cardinality(T) <= Cardinality(pending)
  <1>1. IsFiniteSet(Ids)
    BY FS_Interval, LimitsTyped DEF Ids
  <1>2. IsFiniteSet(pending)
    BY <1>1, FS_Subset DEF TypeOK
  <1> QED
    BY <1>2, FS_Subset, FS_CardinalityType

\* What the lapsed proposals are.
LEMMA LapsedFacts ==
    ASSUME TypeOK
    PROVE  Lapsed \subseteq pending /\ \A i \in Lapsed : i \in Ids /\ records[i] \in Record
  <1>1. \A i \in Lapsed : i \in pending /\ records[i].status = "Pending"
    BY DEF Lapsed
  <1>2. \A i \in pending : i \in Ids
    BY DEF TypeOK
  <1> QED
    BY <1>1, <1>2, RecordFacts DEF Statuses
-----------------------------------------------------------------------------
(* The invariant in parts, one for each group of variables *)

ParamsOK == /\ params \in [Parameters -> Nat]
            /\ \A p \in Parameters \ {"staleness"} : InBounds(p, params[p])
QueueOK == /\ queued \in [Queueable -> [value : Nat, at : Nat] \cup {NoChange}]
           /\ \A p \in Queueable \ {"staleness"} : queued[p] # NoChange => InBounds(p, queued[p].value)
BundleOK == /\ bundle \in [threshold : Nat, cooldown : Nat, at : Nat] \cup {NoBundle}
            /\ bundle # NoBundle => /\ InBounds("threshold", bundle.threshold)
                                    /\ InBounds("cooldown", bundle.cooldown)
UpgradeOK == /\ upgrade \in [hash : Hashes, at : Nat, after : Nat] \cup {NoUpgrade}
             /\ upgrade # NoUpgrade => upgrade.after >= upgrade.at + MinUpgradeDelay
RecordsOK == /\ records \in [Ids -> Record \cup {NoRecord}]
             /\ nextId \in 1..(MaxProposals + 1)
             /\ \A i \in Ids : records[i] # NoRecord => records[i].lock >= MinUpgradeDelay
             /\ \A i \in Ids : i >= nextId => records[i] = NoRecord
PendingOK == /\ pending \subseteq Ids
             /\ PendingMatchesRecords
RestOK == now \in 0..MaxTime /\ wasm \in Hashes \cup {InitialHash} /\ reported \in Nat

LEMMA InParts ==
    /\ TimelockInv <=> ParamsOK /\ QueueOK /\ BundleOK /\ UpgradeOK /\ RecordsOK /\ PendingOK /\ RestOK
    /\ TimelockInv' <=> ParamsOK' /\ QueueOK' /\ BundleOK' /\ UpgradeOK' /\ RecordsOK' /\ PendingOK' /\ RestOK'
  BY Zenon DEF TimelockInv, TypeOK, CheckedWhenQueued, DelaysHold, IdsAreFresh,
     ParamsOK, QueueOK, BundleOK, UpgradeOK, RecordsOK, PendingOK, RestOK

\* A part whose variables do not change is kept.
LEMMA UnchangedParts ==
    /\ params' = params /\ ParamsOK => ParamsOK'
    /\ queued' = queued /\ QueueOK => QueueOK'
    /\ bundle' = bundle /\ BundleOK => BundleOK'
    /\ upgrade' = upgrade /\ UpgradeOK => UpgradeOK'
    /\ records' = records /\ nextId' = nextId /\ RecordsOK => RecordsOK'
    /\ records' = records /\ pending' = pending /\ PendingOK => PendingOK'
    /\ now' = now /\ wasm' = wasm /\ reported' = reported /\ RestOK => RestOK'
  <1>1. params' = params /\ ParamsOK => ParamsOK'
    BY DEF ParamsOK
  <1>2. queued' = queued /\ QueueOK => QueueOK'
    BY DEF QueueOK
  <1>3. bundle' = bundle /\ BundleOK => BundleOK'
    BY DEF BundleOK
  <1>4. upgrade' = upgrade /\ UpgradeOK => UpgradeOK'
    BY DEF UpgradeOK
  <1>5. records' = records /\ nextId' = nextId /\ RecordsOK => RecordsOK'
    BY DEF RecordsOK
  <1>6. records' = records /\ pending' = pending /\ PendingOK => PendingOK'
    BY DEF PendingOK, PendingMatchesRecords
  <1>7. now' = now /\ wasm' = wasm /\ reported' = reported /\ RestOK => RestOK'
    BY DEF RestOK
  <1> QED
    BY <1>1, <1>2, <1>3, <1>4, <1>5, <1>6, <1>7

\* Setting a parameter within its limits.
LEMMA SetKeepsParams ==
    ASSUME ParamsOK, NEW p \in Parameters, NEW v \in Nat, p # "staleness" => InBounds(p, v),
           params' = [params EXCEPT ![p] = v]
    PROVE  ParamsOK'
  <1>1. params' \in [Parameters -> Nat]
    BY DEF ParamsOK
  <1>2. ASSUME NEW q \in Parameters \ {"staleness"} PROVE InBounds(q, params'[q])
    <2>1. CASE q = p
      BY <2>1 DEF ParamsOK
    <2>2. CASE q # p
      BY <2>2 DEF ParamsOK
    <2> QED
      BY <2>1, <2>2
  <1> QED
    BY <1>1, <1>2, Zenon DEF ParamsOK

\* A queued change is a checked one.
LEMMA QueueKeepsInv ==
    ASSUME TimelockInv, NEW p \in Queueable, NEW v \in Nat, p # "staleness" => InBounds(p, v), Queue(p, v)
    PROVE  TimelockInv'
  <1>1. now \in Nat
    BY InParts, LimitsTyped DEF RestOK
  <1>2. queued \in [Queueable -> [value : Nat, at : Nat] \cup {NoChange}]
    BY InParts DEF QueueOK
  <1>3. queued' = [queued EXCEPT ![p] = [value |-> v, at |-> now]]
    BY DEF Queue
  <1>4. queued' \in [Queueable -> [value : Nat, at : Nat] \cup {NoChange}]
    BY <1>1, <1>2, <1>3
  <1>5. ASSUME NEW q \in Queueable \ {"staleness"}, queued'[q] # NoChange PROVE InBounds(q, queued'[q].value)
    <2>1. CASE q = p
      BY <1>2, <1>3, <2>1
    <2>2. CASE q # p
      BY <1>2, <1>3, <1>5, <2>2, InParts DEF QueueOK
    <2> QED
      BY <2>1, <2>2
  <1>6. QueueOK'
    BY <1>4, <1>5, Zenon DEF QueueOK
  <1>7. UNCHANGED <<now, params, bundle, upgrade, wasm, records, nextId, pending, reported>>
    BY DEF Queue, proposals
  <1> QED
    BY <1>6, <1>7, InParts, UnchangedParts
\* Marking proposals of which all are pending, and taking them off the list.
LEMMA MarkKeepsProposals ==
    ASSUME TimelockInv, NEW S \in SUBSET pending, NEW s \in Statuses, s # "Pending",
           records' = Marked(S, s), pending' = Unlisted(S), nextId' = nextId
    PROVE  RecordsOK' /\ PendingOK'
  <1>1. TypeOK /\ RecordsOK /\ PendingOK
    BY InParts DEF TimelockInv
  <1>2. pending = {i \in Ids : records[i].status = "Pending"} /\ Cardinality(pending) <= MaxPending
    BY <1>1 DEF PendingOK, PendingMatchesRecords
  <1>3. \A i \in S : i \in Ids /\ records[i] \in Record
    BY <1>1, <1>2, RecordFacts DEF Statuses
  <1>4. /\ records' \in [Ids -> Record \cup {NoRecord}]
        /\ \A i \in Ids : i \notin S => records'[i] = records[i]
        /\ \A i \in S : records'[i] \in Record /\ records'[i].status = s /\ records'[i].lock = records[i].lock
    BY <1>1, <1>3, MarkedFacts
  <1>5. \A i \in S : records[i] # NoRecord
    BY <1>1, <1>3, RecordFacts
  <1>6. \A i \in Ids : records'[i] # NoRecord => records'[i].lock >= MinUpgradeDelay
    BY <1>1, <1>4, <1>5 DEF RecordsOK
  <1>7. \A i \in Ids : i >= nextId => records'[i] = NoRecord
    BY <1>1, <1>4, <1>5 DEF RecordsOK
  <1>8. RecordsOK'
    BY <1>1, <1>4, <1>6, <1>7, Zenon DEF RecordsOK
  <1>9. pending' = pending \ S
    BY DEF Unlisted
  <1>10. pending' = {i \in Ids : records'[i].status = "Pending"}
    BY <1>2, <1>4, <1>9
  <1>11. Cardinality(pending') <= MaxPending
    <2>1. /\ Cardinality(pending') \in Nat /\ Cardinality(pending') <= Cardinality(pending)
          /\ Cardinality(pending) \in Nat
      BY <1>1, <1>9, PendingFinite
    <2> QED
      BY <1>2, <2>1, LimitsTyped
  <1> QED
    BY <1>8, <1>10, <1>11 DEF PendingOK, PendingMatchesRecords

\* A new proposal takes the next id, after the lapsed ones were marked.
LEMMA ProposeKeepsInv ==
    ASSUME TimelockInv, NEW p \in Proposable, NEW v \in Nat, ProposeParameterChange(p, v)
    PROVE  TimelockInv'
  <1> DEFINE new == [key |-> p, value |-> v, at |-> now, lock |-> params["upgradeDelay"], status |-> "Pending"]
             marked == Marked(Lapsed, "Expired")
  <1>1. TypeOK /\ RecordsOK /\ PendingOK /\ ParamsOK /\ RestOK
    BY InParts DEF TimelockInv
  <1>2. nextId \in Ids /\ nextId \in Nat /\ nextId' = nextId + 1
    BY <1>1, LimitsTyped DEF ProposeParameterChange, RecordsOK, Ids
  <1>3. /\ records' = [marked EXCEPT ![nextId] = new]
        /\ pending' = (pending \ Lapsed) \cup {nextId}
        /\ Cardinality(pending \ Lapsed) < MaxPending
    BY DEF ProposeParameterChange, Unlisted
  <1>4. new \in Record /\ new.status = "Pending" /\ new.lock >= MinUpgradeDelay
    <2>1. now \in Nat
      BY <1>1, LimitsTyped DEF RestOK
    <2>2. params["upgradeDelay"] \in Nat
      BY <1>1 DEF ParamsOK, Parameters, Queueable
    <2>3. params["upgradeDelay"] >= MinUpgradeDelay
      BY DEF ProposeParameterChange
    <2> QED
      BY <2>1, <2>2, <2>3 DEF Record, Statuses
  <1>5. Lapsed \subseteq pending /\ \A i \in Lapsed : i \in Ids /\ records[i] \in Record
    BY <1>1, LapsedFacts
  <1>6. /\ marked \in [Ids -> Record \cup {NoRecord}]
        /\ \A i \in Ids : i \notin Lapsed => marked[i] = records[i]
        /\ \A i \in Lapsed : marked[i] \in Record /\ marked[i].status = "Expired" /\ marked[i].lock = records[i].lock
    BY <1>1, <1>5, MarkedFacts DEF Statuses
  <1>7. \A i \in Lapsed : records[i] # NoRecord
    BY <1>1, <1>5, RecordFacts
  <1>8. pending = {i \in Ids : records[i].status = "Pending"}
    BY <1>1 DEF PendingOK, PendingMatchesRecords
  <1> HIDE DEF new, marked
  <1>9. /\ records' \in [Ids -> Record \cup {NoRecord}]
        /\ records'[nextId] = new
        /\ \A i \in Ids : i # nextId => records'[i] = marked[i]
    BY <1>2, <1>3, <1>4, <1>6
  <1>10. \A i \in Ids : records'[i] # NoRecord => records'[i].lock >= MinUpgradeDelay
    BY <1>1, <1>4, <1>6, <1>7, <1>9 DEF RecordsOK
  <1>11. \A i \in Ids : i >= nextId + 1 => records'[i] = NoRecord
    <2> SUFFICES ASSUME NEW i \in Ids, i >= nextId + 1 PROVE records'[i] = NoRecord
      OBVIOUS
    <2>1. i # nextId /\ i >= nextId
      BY <1>2 DEF Ids
    <2> QED
      BY <1>1, <1>6, <1>7, <1>9, <2>1 DEF RecordsOK
  <1>12. RecordsOK'
    <2>1. nextId' \in 1..(MaxProposals + 1)
      BY <1>2, LimitsTyped DEF Ids
    <2> QED
      BY <1>2, <1>9, <1>10, <1>11, <2>1 DEF RecordsOK
  <1>13. pending' = {i \in Ids : records'[i].status = "Pending"}
    BY <1>2, <1>3, <1>4, <1>6, <1>8, <1>9
  <1>14. Cardinality(pending') <= MaxPending
    <2>1. IsFiniteSet(pending \ Lapsed) /\ Cardinality(pending \ Lapsed) \in Nat
      BY <1>1, PendingFinite
    <2> DEFINE kept == pending \ Lapsed
    <2> HIDE DEF kept
    <2>2. Cardinality(kept \cup {nextId}) = IF nextId \in kept THEN Cardinality(kept) ELSE Cardinality(kept) + 1
      BY <2>1, FS_AddElement DEF kept
    <2>3. Cardinality(pending') = IF nextId \in kept THEN Cardinality(kept) ELSE Cardinality(kept) + 1
      BY <1>3, <2>2 DEF kept
    <2> QED
      BY <1>3, <2>1, <2>3, LimitsTyped DEF kept
  <1>15. PendingOK'
    BY <1>13, <1>14 DEF PendingOK, PendingMatchesRecords
  <1>16. UNCHANGED <<now, params, queued, bundle, upgrade, wasm, reported>>
    BY DEF ProposeParameterChange
  <1> QED
    BY <1>12, <1>15, <1>16, InParts, UnchangedParts
-----------------------------------------------------------------------------
(* The inductive step *)

LEMMA TimelockInit == Init => TimelockInv
  <1> SUFFICES ASSUME Init PROVE TimelockInv
    OBVIOUS
  <1>1. ParamsOK
    BY DefaultsInBounds DEF Init, ParamsOK
  <1>2. QueueOK /\ BundleOK /\ UpgradeOK
    BY DEF Init, QueueOK, BundleOK, UpgradeOK
  <1>3. RecordsOK
    BY LimitsTyped DEF Init, RecordsOK
  <1>4. {i \in Ids : records[i].status = "Pending"} = {}
    BY DEF Init, NoRecord
  <1>5. Cardinality({}) = 0
    BY FS_EmptySet
  <1>6. PendingOK
    BY <1>4, <1>5, LimitsTyped DEF Init, PendingOK, PendingMatchesRecords
  <1>7. RestOK
    BY LimitsTyped DEF Init, RestOK
  <1> QED
    BY <1>1, <1>2, <1>3, <1>6, <1>7, InParts

\* A pending record is one of the list.
LEMMA PendingListed ==
    ASSUME TimelockInv, NEW i \in Ids, records[i].status = "Pending"
    PROVE  /\ {i} \in SUBSET pending /\ records[i] \in Record
           /\ records[i].key \in Proposable /\ records[i].value \in Nat
           /\ records[i].at \in Nat /\ records[i].lock \in Nat /\ records[i].lock >= MinUpgradeDelay
  <1>1. TypeOK /\ RecordsOK /\ PendingOK
    BY InParts DEF TimelockInv
  <1>2. records[i] \in Record /\ records[i] # NoRecord
    BY <1>1, RecordFacts DEF Statuses
  <1>3. {i} \in SUBSET pending
    BY <1>1 DEF PendingOK, PendingMatchesRecords
  <1>4. records[i].lock >= MinUpgradeDelay
    BY <1>1, <1>2 DEF RecordsOK
  <1> QED
    BY <1>2, <1>3, <1>4 DEF Record

LEMMA TimelockStep == TimelockInv /\ [Next]_vars => TimelockInv'
  <1> SUFFICES ASSUME TimelockInv, [Next]_vars PROVE TimelockInv'
    OBVIOUS
  <1> USE DEF proposals
  <1>0. /\ ParamsOK /\ QueueOK /\ BundleOK /\ UpgradeOK /\ RecordsOK /\ PendingOK /\ RestOK
        /\ now \in Nat
    BY InParts, LimitsTyped DEF RestOK
  <1>1. ASSUME NEW v \in Inputs["threshold"], SetRiskThreshold(v) PROVE TimelockInv'
    <2>1. v \in Nat
      BY InputsTyped DEF Parameters, Queueable
    <2> QED
      BY <1>1, <2>1, QueueKeepsInv DEF SetRiskThreshold, Queueable
  <1>2. ASSUME NEW v \in Inputs["depth"], SetHistoryMaxDepth(v) PROVE TimelockInv'
    <2>1. v \in Nat
      BY InputsTyped DEF Parameters, Queueable
    <2> QED
      BY <1>2, <2>1, QueueKeepsInv DEF SetHistoryMaxDepth, Queueable
  <1>3. ASSUME NEW v \in Inputs["upgradeDelay"], SetUpgradeDelay(v) PROVE TimelockInv'
    <2>1. v \in Nat
      BY InputsTyped DEF Parameters, Queueable
    <2> QED
      BY <1>3, <2>1, QueueKeepsInv DEF SetUpgradeDelay, Queueable
  <1>4. ASSUME NEW v \in Inputs["staleness"], SetStalenessWindow(v) PROVE TimelockInv'
    <2>1. v \in Nat
      BY InputsTyped DEF Parameters, Queueable
    <2> QED
      BY <1>4, <2>1, QueueKeepsInv DEF SetStalenessWindow, Queueable
  <1>5. ASSUME NEW p \in Queueable, ApplyParamChange(p) PROVE TimelockInv'
    <2>1. queued[p] \in [value : Nat, at : Nat] /\ (p # "staleness" => InBounds(p, queued[p].value))
      BY <1>0, <1>5 DEF ApplyParamChange, QueueOK
    <2>2. ParamsOK'
      <3>1. p \in Parameters /\ queued[p].value \in Nat
        BY <2>1 DEF Parameters
      <3> QED
        BY <1>0, <1>5, <2>1, <3>1, SetKeepsParams DEF ApplyParamChange
    <2>3. QueueOK'
      <3>1. queued' = [queued EXCEPT ![p] = NoChange]
        BY <1>5 DEF ApplyParamChange
      <3> QED
        BY <1>0, <3>1 DEF QueueOK
    <2>4. UNCHANGED <<now, bundle, upgrade, wasm, records, nextId, pending, reported>>
      BY <1>5 DEF ApplyParamChange
    <2> QED
      BY <1>0, <2>2, <2>3, <2>4, InParts, UnchangedParts
  <1>6. ASSUME NEW t \in Inputs["threshold"], NEW c \in Inputs["cooldown"], ProposePolicyBundle(t, c)
        PROVE  TimelockInv'
    <2>1. t \in Nat /\ c \in Nat
      BY InputsTyped DEF Parameters, Queueable, Proposable
    <2>2. BundleOK'
      BY <1>0, <1>6, <2>1 DEF ProposePolicyBundle, BundleOK
    <2>3. UNCHANGED <<now, params, queued, upgrade, wasm, records, nextId, pending, reported>>
      BY <1>6 DEF ProposePolicyBundle
    <2> QED
      BY <1>0, <2>2, <2>3, InParts, UnchangedParts
  <1>7. CASE ApplyPolicyBundle
    <2>1. /\ bundle \in [threshold : Nat, cooldown : Nat, at : Nat]
          /\ InBounds("threshold", bundle.threshold) /\ InBounds("cooldown", bundle.cooldown)
      BY <1>0, <1>7 DEF ApplyPolicyBundle, BundleOK
    <2>2. params' = [params EXCEPT !["threshold"] = bundle.threshold, !["cooldown"] = bundle.cooldown]
      BY <1>7 DEF ApplyPolicyBundle
    <2>3. params' \in [Parameters -> Nat]
      BY <1>0, <2>1, <2>2 DEF ParamsOK
    <2>4. ASSUME NEW q \in Parameters \ {"staleness"} PROVE InBounds(q, params'[q])
      <3>1. CASE q = "threshold"
        BY <1>0, <2>1, <2>2, <3>1 DEF ParamsOK
      <3>2. CASE q = "cooldown"
        BY <1>0, <2>1, <2>2, <3>2 DEF ParamsOK
      <3>3. CASE q # "threshold" /\ q # "cooldown"
        BY <1>0, <2>2, <3>3 DEF ParamsOK
      <3> QED
        BY <3>1, <3>2, <3>3
    <2>5. ParamsOK'
      BY <2>3, <2>4, Zenon DEF ParamsOK
    <2>6. BundleOK'
      BY <1>7 DEF ApplyPolicyBundle, BundleOK
    <2>7. UNCHANGED <<now, queued, upgrade, wasm, records, nextId, pending, reported>>
      BY <1>7 DEF ApplyPolicyBundle
    <2> QED
      BY <1>0, <2>5, <2>6, <2>7, InParts, UnchangedParts
  <1>8. ASSUME NEW p \in Parameters, NEW v \in Nat, InBounds(p, v), SetNow(p, v) PROVE TimelockInv'
    <2>1. ParamsOK'
      BY <1>0, <1>8, SetKeepsParams DEF SetNow
    <2>2. UNCHANGED <<now, queued, bundle, upgrade, wasm, records, nextId, pending, reported>>
      BY <1>8 DEF SetNow
    <2> QED
      BY <1>0, <2>1, <2>2, InParts, UnchangedParts
  <1>9. ASSUME NEW v \in Inputs["cooldown"], SetCooldown(v) PROVE TimelockInv'
    <2>1. v \in Nat /\ "cooldown" \in Parameters
      BY InputsTyped DEF Parameters, Proposable
    <2> QED
      BY <1>8, <1>9, <2>1 DEF SetCooldown
  <1>10. ASSUME NEW v \in Inputs["decay"], SetDecayRate(v) PROVE TimelockInv'
    <2>1. v \in Nat /\ "decay" \in Parameters
      BY InputsTyped DEF Parameters, Proposable
    <2> QED
      BY <1>8, <1>10, <2>1 DEF SetDecayRate
  <1>11. ASSUME NEW v \in Inputs["velocity"], SetScoreVelocityCap(v) PROVE TimelockInv'
    <2>1. v \in Nat /\ "velocity" \in Parameters
      BY InputsTyped DEF Parameters, Proposable
    <2> QED
      BY <1>8, <1>11, <2>1 DEF SetScoreVelocityCap
  <1>12. ASSUME NEW h \in Hashes, ProposeUpgrade(h) PROVE TimelockInv'
    <2>1. upgrade' = [hash |-> h, at |-> now, after |-> now + params["upgradeDelay"]]
      BY <1>12 DEF ProposeUpgrade
    <2>2. params["upgradeDelay"] \in Nat /\ params["upgradeDelay"] >= MinUpgradeDelay
      <3>1. "upgradeDelay" \in Parameters \ {"staleness"}
        BY DEF Parameters, Queueable
      <3>2. params["upgradeDelay"] \in Nat /\ InBounds("upgradeDelay", params["upgradeDelay"])
        BY <1>0, <3>1 DEF ParamsOK
      <3> QED
        BY <3>1, <3>2, BoundsTyped DEF InBounds, MinUpgradeDelay
    <2>3. MinUpgradeDelay \in Nat
      BY BoundsTyped DEF MinUpgradeDelay, Parameters, Queueable
    <2>4. UpgradeOK'
      BY <1>0, <2>1, <2>2, <2>3 DEF UpgradeOK
    <2>5. UNCHANGED <<now, params, queued, bundle, wasm, records, nextId, pending, reported>>
      BY <1>12 DEF ProposeUpgrade
    <2> QED
      BY <1>0, <2>4, <2>5, InParts, UnchangedParts
  <1>13. CASE ExecuteUpgrade
    <2>1. UpgradeOK'
      BY <1>13 DEF ExecuteUpgrade, UpgradeOK
    <2>2. RestOK'
      BY <1>0, <1>13 DEF ExecuteUpgrade, UpgradeOK, RestOK
    <2>3. UNCHANGED <<params, queued, bundle, records, nextId, pending>>
      BY <1>13 DEF ExecuteUpgrade
    <2> QED
      BY <1>0, <2>1, <2>2, <2>3, InParts, UnchangedParts
  <1>14. CASE VetoUpgrade
    <2>1. UpgradeOK'
      BY <1>14 DEF VetoUpgrade, UpgradeOK
    <2>2. UNCHANGED <<now, params, queued, bundle, wasm, records, nextId, pending, reported>>
      BY <1>14 DEF VetoUpgrade
    <2> QED
      BY <1>0, <2>1, <2>2, InParts, UnchangedParts
  <1>15. ASSUME NEW p \in ProposalKeys, NEW v \in Inputs[p], ProposeParameterChange(p, v) PROVE TimelockInv'
    <2>1. p \in Proposable /\ v \in Nat
      BY ProposalKeysTyped, InputsTyped DEF Parameters
    <2> QED
      BY <1>15, <2>1, ProposeKeepsInv
  <1>16. ASSUME NEW id \in Ids, ExecuteParameterChange(id) PROVE TimelockInv'
    <2>1. records[id].status = "Pending"
      BY <1>16 DEF ExecuteParameterChange, CanExecute
    <2>2. {id} \in SUBSET pending /\ records[id].key \in Proposable /\ records[id].value \in Nat
      BY <2>1, PendingListed
    <2>3. ParamsOK'
      BY <1>0, <1>16, <2>2, SetKeepsParams DEF ExecuteParameterChange, ValidValue, Parameters
    <2>4. RecordsOK' /\ PendingOK'
      BY <1>16, <2>2, MarkKeepsProposals DEF ExecuteParameterChange, Statuses
    <2>5. UNCHANGED <<now, queued, bundle, upgrade, wasm, reported>>
      BY <1>16 DEF ExecuteParameterChange
    <2> QED
      BY <1>0, <2>3, <2>4, <2>5, InParts, UnchangedParts
  <1>17. ASSUME NEW id \in Ids, VetoParameterChange(id) PROVE TimelockInv'
    <2>1. records[id].status = "Pending"
      BY <1>17 DEF VetoParameterChange, CanVeto
    <2>2. {id} \in SUBSET pending
      BY <2>1, PendingListed
    <2>3. RecordsOK' /\ PendingOK'
      BY <1>17, <2>2, MarkKeepsProposals DEF VetoParameterChange, Statuses
    <2>4. UNCHANGED <<now, params, queued, bundle, upgrade, wasm, reported>>
      BY <1>17 DEF VetoParameterChange
    <2> QED
      BY <1>0, <2>3, <2>4, InParts, UnchangedParts
  <1>18. ASSUME NEW id \in Ids, GetParameterProposal(id) PROVE TimelockInv'
    <2>1. Lapsed \in SUBSET pending
      BY LapsedFacts DEF TimelockInv
    <2>2. RecordsOK' /\ PendingOK'
      BY <1>18, <2>1, MarkKeepsProposals DEF GetParameterProposal, Statuses
    <2>3. UNCHANGED <<now, params, queued, bundle, upgrade, wasm, reported>>
      BY <1>18 DEF GetParameterProposal
    <2> QED
      BY <1>0, <2>2, <2>3, InParts, UnchangedParts
  <1>19. CASE CleanupExpiredParamProposals
    <2>1. Cardinality(Overdue) \in Nat
      <3>1. IsFiniteSet(Ids)
        BY FS_Interval, LimitsTyped DEF Ids
      <3>2. Overdue \subseteq Ids
        BY DEF Overdue
      <3> QED
        BY <3>1, <3>2, FS_Subset, FS_CardinalityType
    <2>2. RestOK'
      BY <1>0, <1>19, <2>1 DEF CleanupExpiredParamProposals, RestOK
    <2>3. UNCHANGED <<params, queued, bundle, upgrade, records, nextId, pending>>
      BY <1>19 DEF CleanupExpiredParamProposals
    <2> QED
      BY <1>0, <2>2, <2>3, InParts, UnchangedParts
  <1>20. CASE Tick
    <2>1. RestOK'
      BY <1>0, <1>20, LimitsTyped DEF Tick, RestOK
    <2>2. UNCHANGED <<params, queued, bundle, upgrade, records, nextId, pending>>
      BY <1>20 DEF Tick
    <2> QED
      BY <1>0, <2>1, <2>2, InParts, UnchangedParts
  <1>21. CASE UNCHANGED vars
    BY <1>0, <1>21, InParts, UnchangedParts DEF vars
  <1> QED
    BY <1>1, <1>2, <1>3, <1>4, <1>5, <1>6, <1>7, <1>9, <1>10, <1>11, <1>12, <1>13, <1>14,
       <1>15, <1>16, <1>17, <1>18, <1>19, <1>20, <1>21, Zenon DEF Next

\* Every reachable state satisfies the invariant.
LEMMA TimelockInvariant == Spec => []TimelockInv
  BY TimelockInit, TimelockStep, PTL DEF Spec
-----------------------------------------------------------------------------
(* The theorems *)

\* Every variable keeps its type, and every parameter with a hard limit stays
\* within it, on all four ways a parameter can change.
THEOREM TimelockTypeCorrect == Spec => []TypeOK
  BY TimelockInvariant, PTL DEF TimelockInv

\* The pending list is exactly the set of pending proposals and never grows
\* beyond MAX_PENDING_PARAMETER_PROPOSALS.
THEOREM PendingListIsExact == Spec => []PendingMatchesRecords
  BY TimelockInvariant, PTL DEF TimelockInv

\* The veto window of a proposal is over before it can be executed.
THEOREM VetoWindowIsSeparate == Spec => []VetoBeforeExecute
  <1>1. TimelockInv => VetoBeforeExecute
    <2> SUFFICES ASSUME TimelockInv, NEW i \in Ids, CanVeto(records[i]), CanExecute(records[i]) PROVE FALSE
      BY DEF VetoBeforeExecute
    <2>1. records[i].status = "Pending" /\ now <= records[i].at + records[i].lock \div 2
          /\ now >= records[i].at + records[i].lock
      BY DEF CanVeto, CanExecute
    <2>2. records[i].at \in Nat /\ records[i].lock \in Nat /\ records[i].lock >= MinUpgradeDelay
      BY <2>1, PendingListed
    <2>3. MinUpgradeDelay \in Nat /\ MinUpgradeDelay > 0
      BY BoundsTyped, DelaysTyped DEF MinUpgradeDelay, Parameters, Queueable
    <2>4. now \in Nat
      BY InParts, LimitsTyped DEF RestOK
    <2>5. \A n \in Nat : n > 0 => n \div 2 < n /\ n \div 2 \in Nat
      OBVIOUS
    <2>6. records[i].lock \div 2 < records[i].lock /\ records[i].lock \div 2 \in Nat
      BY <2>2, <2>3, <2>5
    <2> QED
      BY <2>1, <2>2, <2>4, <2>6
  <1> QED
    BY <1>1, TimelockInvariant, PTL

\* A settled proposal is not in the pending list, and only listed proposals and
\* ids not yet issued are written.
LEMMA OnlyPendingChange ==
    ASSUME TimelockInv, [Next]_vars, NEW i \in Ids, records[i].status \in Statuses \ {"Pending"}
    PROVE  records'[i] = records[i]
  <1> USE DEF proposals
  <1>0. TypeOK /\ RecordsOK /\ PendingOK
    BY InParts DEF TimelockInv
  <1>1. i \notin pending
    BY <1>0 DEF PendingOK, PendingMatchesRecords, Statuses
  <1>2. records[i] # NoRecord
    BY <1>0, RecordFacts
  <1>3. i # nextId
    BY <1>0, <1>2 DEF RecordsOK, Ids
  <1>4. \A S, s : i \notin S => Marked(S, s)[i] = records[i]
    BY DEF Marked
  <1>5. i \notin Lapsed
    BY <1>1 DEF Lapsed
  <1>6. ASSUME NEW p \in ProposalKeys, NEW v \in Inputs[p], ProposeParameterChange(p, v)
        PROVE  records'[i] = records[i]
    <2>1. records'[i] = Marked(Lapsed, "Expired")[i]
      BY <1>3, <1>6 DEF ProposeParameterChange, Marked
    <2> QED
      BY <1>4, <1>5, <2>1
  <1>7. ASSUME NEW id \in Ids, ExecuteParameterChange(id) \/ VetoParameterChange(id)
        PROVE  records'[i] = records[i]
    <2>1. id # i
      BY <1>7 DEF ExecuteParameterChange, VetoParameterChange, CanExecute, CanVeto, Statuses
    <2>2. \E s : records' = Marked({id}, s)
      BY <1>7 DEF ExecuteParameterChange, VetoParameterChange
    <2> QED
      BY <1>4, <2>1, <2>2
  <1>8. ASSUME NEW id \in Ids, GetParameterProposal(id) PROVE records'[i] = records[i]
    BY <1>4, <1>5, <1>8 DEF GetParameterProposal
  <1>9. CASE UNCHANGED records
    BY <1>9
  <1> QED
    BY <1>6, <1>7, <1>8, <1>9
       DEF Next, vars, Queue, SetRiskThreshold, SetHistoryMaxDepth, SetUpgradeDelay, SetStalenessWindow,
           ApplyParamChange, ProposePolicyBundle, ApplyPolicyBundle, SetNow, SetCooldown, SetDecayRate,
           SetScoreVelocityCap, ProposeUpgrade, ExecuteUpgrade, VetoUpgrade,
           CleanupExpiredParamProposals, Tick

\* A proposal that was executed, vetoed or expired never changes again.
THEOREM SettledStaysSettled == Spec => SettledIsFinal
  <1>1. TimelockInv /\ [Next]_vars =>
          [\A i \in Ids : records[i].status \in Statuses \ {"Pending"} => records'[i] = records[i]]_vars
    BY OnlyPendingChange
  <1> QED
    BY <1>1, TimelockInvariant, PTL DEF Spec, SettledIsFinal
\* A queueable parameter changes only to an announced value, and the code only
\* to an announced hash, whatever happened to the delays in between.
THEOREM ChangesAreAnnounced == Spec => AnnouncedInAdvance
  <1> DEFINE Param(p) == params'[p] # params[p] =>
                \E a \in Announced(p) : a.value = params'[p] /\ now >= a.at + ParamDelay
             Code == wasm' # wasm => upgrade.hash = wasm' /\ now >= upgrade.at + MinUpgradeDelay
  <1>1. ASSUME TimelockInv, Next, NEW p \in Queueable PROVE Param(p)
    <2> USE DEF proposals
    <2>0. /\ ParamsOK /\ QueueOK /\ BundleOK /\ RecordsOK /\ now \in Nat
          /\ ParamDelay \in Nat /\ MinUpgradeDelay \in Nat /\ ParamDelay <= MinUpgradeDelay
      BY InParts, <1>1, LimitsTyped, DelaysTyped, BoundsTyped
         DEF RestOK, MinUpgradeDelay, Parameters, Queueable
    <2>1. ASSUME NEW q \in Queueable, ApplyParamChange(q) PROVE Param(p)
      <3>1. CASE q = p
        <4>1. queued[p] \in Announced(p) /\ now >= queued[p].at + ParamDelay
          BY <2>1, <3>1 DEF ApplyParamChange, Announced
        <4>2. params'[p] = queued[p].value
          BY <2>0, <2>1, <3>1 DEF ApplyParamChange, ParamsOK, Parameters
        <4> QED
          BY <4>1, <4>2
      <3>2. CASE q # p
        BY <2>0, <2>1, <3>2 DEF ApplyParamChange, ParamsOK, Parameters
      <3> QED
        BY <3>1, <3>2
    <2>2. CASE ApplyPolicyBundle
      <3>1. CASE p = "threshold"
        <4> DEFINE a == [value |-> bundle.threshold, at |-> bundle.at]
        <4>1. a \in Announced(p) /\ now >= a.at + ParamDelay
          BY <2>2, <3>1 DEF ApplyPolicyBundle, Announced
        <4>2. params'[p] = a.value
          BY <2>0, <2>2, <3>1 DEF ApplyPolicyBundle, ParamsOK, Parameters
        <4> QED
          BY <4>1, <4>2
      <3>2. CASE p # "threshold"
        BY <2>0, <2>2, <3>2 DEF ApplyPolicyBundle, ParamsOK, Parameters, Queueable
      <3> QED
        BY <3>1, <3>2
    <2>3. ASSUME NEW id \in Ids, ExecuteParameterChange(id) PROVE Param(p)
      <3>1. records[id].status = "Pending" /\ now >= records[id].at + records[id].lock
        BY <2>3 DEF ExecuteParameterChange, CanExecute
      <3>2. /\ records[id].at \in Nat /\ records[id].lock \in Nat
            /\ records[id].lock >= MinUpgradeDelay /\ records[id].key \in Proposable
        BY <1>1, <3>1, PendingListed
      <3>3. params' = [params EXCEPT ![records[id].key] = records[id].value]
        BY <2>3 DEF ExecuteParameterChange
      <3>4. CASE records[id].key = p
        <4> DEFINE a == [value |-> records[id].value, at |-> records[id].at]
        <4>1. a \in Announced(p)
          BY <3>1, <3>4 DEF Announced
        <4>2. now >= a.at + ParamDelay
          BY <2>0, <3>1, <3>2
        <4>3. params'[p] = a.value
          BY <2>0, <3>3, <3>4 DEF ParamsOK, Parameters
        <4> QED
          BY <4>1, <4>2, <4>3
      <3>5. CASE records[id].key # p
        BY <2>0, <3>3, <3>5 DEF ParamsOK, Parameters
      <3> QED
        BY <3>4, <3>5
    <2>4. ASSUME NEW q \in Parameters \ Queueable, NEW v, SetNow(q, v) PROVE Param(p)
      BY <2>0, <2>4 DEF SetNow, ParamsOK, Parameters
    <2>5. \A v : SetCooldown(v) \/ SetDecayRate(v) \/ SetScoreVelocityCap(v) => Param(p)
      BY <2>4 DEF SetCooldown, SetDecayRate, SetScoreVelocityCap, Parameters, Proposable, Queueable
    <2>6. CASE params' = params
      BY <2>6
    <2> HIDE DEF Param
    <2> QED
      BY <1>1, <2>1, <2>2, <2>3, <2>5, <2>6
         DEF Next, Queue, SetRiskThreshold, SetHistoryMaxDepth, SetUpgradeDelay, SetStalenessWindow,
             ProposePolicyBundle, ProposeUpgrade, ExecuteUpgrade, VetoUpgrade, ProposeParameterChange,
             VetoParameterChange, GetParameterProposal, CleanupExpiredParamProposals, Tick
  <1>2. ASSUME TimelockInv, Next PROVE Code
    <2> USE DEF proposals
    <2>1. CASE ExecuteUpgrade
      <3>1. upgrade # NoUpgrade /\ now >= upgrade.after /\ wasm' = upgrade.hash
        BY <2>1 DEF ExecuteUpgrade
      <3>2. upgrade.after >= upgrade.at + MinUpgradeDelay /\ upgrade.after \in Nat /\ upgrade.at \in Nat
        BY <1>2, <3>1, InParts DEF UpgradeOK
      <3>3. RestOK
        BY <1>2, InParts
      <3>4. now \in Nat
        BY <3>3, LimitsTyped DEF RestOK
      <3>5. "upgradeDelay" \in Parameters
        BY DEF Parameters, Queueable
      <3>6. MinUpgradeDelay \in Nat
        BY <3>5, BoundsTyped DEF MinUpgradeDelay
      <3> QED
        BY <3>1, <3>2, <3>4, <3>6
    <2>2. CASE wasm' = wasm
      BY <2>2
    <2> HIDE DEF Code
    <2> QED
      BY <1>2, <2>1, <2>2
         DEF Next, Queue, SetRiskThreshold, SetHistoryMaxDepth, SetUpgradeDelay, SetStalenessWindow,
             ApplyParamChange, ProposePolicyBundle, ApplyPolicyBundle, SetNow, SetCooldown, SetDecayRate,
             SetScoreVelocityCap, ProposeUpgrade, VetoUpgrade, ProposeParameterChange, ExecuteParameterChange,
             VetoParameterChange, GetParameterProposal, CleanupExpiredParamProposals, Tick
  <1>3. TimelockInv /\ [Next]_vars => [(\A p \in Queueable : Param(p)) /\ Code]_vars
    <2> HIDE DEF Param, Code
    <2> QED BY <1>1, <1>2
  <1> QED
    BY <1>3, TimelockInvariant, PTL DEF Spec, AnnouncedInAdvance
\* Executing a proposal keeps the cooldown within the staleness window if it
\* was there before, however the parameters moved since the proposal was made.
THEOREM ExecutionKeepsOrder == Spec => ProposalsKeepOrder
  <1> DEFINE Executes == \E i \in Ids : records[i].status = "Pending" /\ records'[i].status = "Executed"
             Keeps == params["cooldown"] <= params["staleness"] => params'["cooldown"] <= params'["staleness"]
  <1>1. ASSUME TimelockInv, NEW id \in Ids, ExecuteParameterChange(id) PROVE Keeps
    <2>1. params \in [Parameters -> Nat] /\ "cooldown" \in Parameters /\ "staleness" \in Parameters
      BY <1>1, InParts DEF ParamsOK, Parameters, Queueable, Proposable
    <2>2. /\ params' = [params EXCEPT ![records[id].key] = records[id].value]
          /\ CrossConstraints(records[id].key, records[id].value)
      BY <1>1 DEF ExecuteParameterChange, ValidValue
    <2>3. CASE records[id].key = "cooldown"
      BY <2>1, <2>2, <2>3 DEF CrossConstraints
    <2>4. CASE records[id].key = "staleness"
      BY <2>1, <2>2, <2>4 DEF CrossConstraints
    <2>5. CASE records[id].key # "cooldown" /\ records[id].key # "staleness"
      BY <2>1, <2>2, <2>5
    <2> QED
      BY <2>3, <2>4, <2>5
  <1>2. ASSUME NEW S, NEW s, s # "Executed", NEW i \in Ids, records[i].status = "Pending",
               TypeOK, \A j \in S : j \in Ids /\ records[j] \in Record, s \in Statuses
        PROVE  Marked(S, s)[i].status # "Executed"
    BY <1>2, MarkedFacts
  <1>3. ASSUME TimelockInv, Next, \A id \in Ids : ~ExecuteParameterChange(id) PROVE ~Executes
    <2> USE DEF proposals
    <2> SUFFICES ASSUME NEW i \in Ids, records[i].status = "Pending" PROVE records'[i].status # "Executed"
      OBVIOUS
    <2>0. TypeOK /\ RecordsOK
      BY <1>3, InParts DEF TimelockInv
    <2>1. ASSUME NEW p \in ProposalKeys, NEW v \in Inputs[p], ProposeParameterChange(p, v)
          PROVE  records'[i].status # "Executed"
      <3>1. Marked(Lapsed, "Expired")[i].status # "Executed"
        BY <1>2, <2>0, LapsedFacts DEF Statuses
      <3>2. CASE i = nextId
        BY <2>1, <3>2 DEF ProposeParameterChange, Marked
      <3>3. CASE i # nextId
        <4>1. records'[i] = Marked(Lapsed, "Expired")[i]
          BY <2>1, <3>3 DEF ProposeParameterChange, Marked
        <4> QED
          BY <3>1, <4>1
      <3> QED
        BY <3>2, <3>3
    <2>2. ASSUME NEW id \in Ids, VetoParameterChange(id) PROVE records'[i].status # "Executed"
      <3>1. records[id] \in Record
        BY <2>0, <2>2, RecordFacts DEF VetoParameterChange, CanVeto, Statuses
      <3>2. Marked({id}, "Vetoed")[i].status # "Executed"
        BY <1>2, <2>0, <3>1 DEF Statuses
      <3> QED
        BY <2>2, <3>2 DEF VetoParameterChange
    <2>3. ASSUME NEW id \in Ids, GetParameterProposal(id) PROVE records'[i].status # "Executed"
      <3>1. Marked(Lapsed, "Expired")[i].status # "Executed"
        BY <1>2, <2>0, LapsedFacts DEF Statuses
      <3> QED
        BY <2>3, <3>1 DEF GetParameterProposal
    <2>4. CASE records' = records
      BY <2>4
    <2> QED
      BY <1>3, <2>1, <2>2, <2>3, <2>4
         DEF Next, Queue, SetRiskThreshold, SetHistoryMaxDepth, SetUpgradeDelay, SetStalenessWindow,
             ApplyParamChange, ProposePolicyBundle, ApplyPolicyBundle, SetNow, SetCooldown, SetDecayRate,
             SetScoreVelocityCap, ProposeUpgrade, ExecuteUpgrade, VetoUpgrade,
             CleanupExpiredParamProposals, Tick
  <1>4. TimelockInv /\ [Next]_vars => [Executes => Keeps]_vars
    <2> HIDE DEF Executes, Keeps
    <2> QED BY <1>1, <1>3
  <1> QED
    BY <1>4, TimelockInvariant, PTL DEF Spec, ProposalsKeepOrder
=============================================================================
