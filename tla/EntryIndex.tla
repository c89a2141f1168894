----------------------------- MODULE EntryIndex -----------------------------
(***************************************************************************)
(* TTL rent management of score entries: the ScoreEntryIndex queue, the    *)
(* last-touched markers the remaining TTL is estimated from, the page of   *)
(* due entries, the admin and keeper renewals, and the keeper rewards.     *)
(* The time-to-live of an entry itself is kept by the ledger: liveUntil    *)
(* and the two rules that set it are modelled from how the code calls it.  *)
(* A batch of renewals pays min(total, pool, headroom) at its end, which   *)
(* is what its entries pay one by one in the same ledger, so each entry of *)
(* a batch is a step.  The index and the markers are assumed restored.     *)
(***************************************************************************)
EXTENDS Integers, Sequences, FiniteSets, SequencesExt

CONSTANTS
    Keys,           \* (wallet, asset_pair) entries
    Threshold,      \* SCORE_TTL_THRESHOLD
    ExtendTo,       \* SCORE_TTL_EXTEND_TO
    MinTtl,         \* TTL the ledger gives a newly created entry
    MaxTracked,     \* MAX_TRACKED_SCORE_ENTRIES
    MaxPage,        \* MAX_EXPIRING_ENTRIES_PER_CALL
    Params,         \* reward parameters the admin may set
    MaxFunds,       \* bound on the reward pool
    MaxSeq          \* bound on the ledger sequence

RewardParams == [perEntry : Nat, window : 0..Threshold, cap : Nat]

ASSUME TtlAssumption == /\ Threshold \in Nat \ {0} /\ ExtendTo \in Nat /\ MinTtl \in Nat
                        /\ Threshold < ExtendTo
ASSUME IndexAssumption == MaxTracked \in Nat /\ MaxPage \in Nat \ {0}
ASSUME ParamsAssumption == Params \subseteq RewardParams
ASSUME LimitsAssumption == MaxFunds \in Nat /\ MaxSeq \in Nat

VARIABLES
    seq,        \* ledger sequence
    live,       \* the keys with a Score entry
    liveUntil,  \* last ledger of each entry (kept by the ledger)
    touch,      \* ScoreEntryLastTouchedLedger, or Never
    index,      \* ScoreEntryIndex, front first
    params,     \* KeeperRewardPerEntry, KeeperRewardWindow, per-ledger cap
    pool,       \* KeeperRewardPool
    spent,      \* KeeperRewardLedgerSpent of the current ledger
    rewardedAt  \* history variable: the ledger of the last paid renewal

entries == <<live, liveUntil, touch, index>>
rewards == <<params, pool, spent, rewardedAt>>
vars == <<seq, entries, rewards>>

Never == -1
Least(a, b) == IF a < b THEN a ELSE b

-----------------------------------------------------------------------------
(* The queue *)

Tracked == {index[i] : i \in DOMAIN index}

\* Mutant of ReindexToBack: an entry that is present keeps its place.
ReindexInPlace(k) ==
    IF k \in Tracked \/ Len(index) >= MaxTracked THEN index ELSE Append(index, k)

\* Mutant of ReindexToBack: an entry that is present is appended again.
ReindexTwice(k) ==
    IF k \in Tracked \/ Len(index) < MaxTracked THEN Append(index, k) ELSE index

\* reindex_entry_to_back
ReindexToBack(k) ==
    IF k \in Tracked THEN Append(RemoveFirst(index, k), k)
    ELSE IF Len(index) < MaxTracked THEN Append(index, k) ELSE index

\* ledgers_since_touch and estimate_entry_ttl, for touched entries
Elapsed(k) == seq - touch[k]
Remaining(k) == IF Elapsed(k) < Threshold THEN Threshold - Elapsed(k) ELSE 0
Due(k) == touch[k] # Never /\ Elapsed(k) >= Threshold

\* Mutant of Expiring: the scan stops one entry early.
ExpiringStopsEarly(n) ==
    LET stops == {i \in DOMAIN index : ~Due(index[i])} \cup {Len(index)}
        first == CHOOSE i \in stops : \A j \in stops : i <= j
    IN  SubSeq(index, 1, Least(first - 1, Least(n, MaxPage)))

\* get_expiring_entries: from the front, up to the first entry that is not due.
Expiring(n) ==
    LET stops == {i \in DOMAIN index : ~Due(index[i])} \cup {Len(index) + 1}
        first == CHOOSE i \in stops : \A j \in stops : i <= j
    IN  SubSeq(index, 1, Least(first - 1, Least(n, MaxPage)))

\* extend_ttl(key, threshold, extend_to): acts once the TTL is low enough.
ExtendTtl(until) == IF until - seq <= Threshold THEN seq + ExtendTo ELSE until

\* An archived entry cannot be used by a transaction until it is restored.
Accessible(k) == k \in live => liveUntil[k] >= seq

-----------------------------------------------------------------------------
(* Score entries *)

\* set_score: create or overwrite, extend lazily, move to the back, touch.
SetScore(k) ==
    /\ Accessible(k)
    /\ live' = live \cup {k}
    /\ LET until == IF k \in live THEN liveUntil[k] ELSE seq + MinTtl
           lazy == touch[k] # Never /\ Elapsed(k) < Threshold
       IN  liveUntil' = [liveUntil EXCEPT ![k] = IF lazy THEN until ELSE ExtendTtl(until)]
    /\ index' = ReindexToBack(k)
    /\ touch' = [touch EXCEPT ![k] = seq]
    /\ UNCHANGED <<seq, rewards>>

\* get_score extends the entry it reads, without touching the marker.
GetScore(k) ==
    /\ k \in live /\ Accessible(k)
    /\ liveUntil' = [liveUntil EXCEPT ![k] = ExtendTtl(@)]
    /\ UNCHANGED <<seq, live, touch, index, rewards>>

\* Mutant of ClearScore: the erased entry stays in the queue.
ClearLeavesQueue(k) ==
    /\ Accessible(k)
    /\ live' = live \ {k}
    /\ UNCHANGED <<seq, liveUntil, touch, index, rewards>>

\* clear_score: the marker stays behind.
ClearScore(k) ==
    /\ Accessible(k)
    /\ live' = live \ {k}
    /\ index' = RemoveFirst(index, k)
    /\ UNCHANGED <<seq, liveUntil, touch, rewards>>

\* extend_score_entry_ttl, given a live entry
Renew(k) ==
    /\ k \in live /\ Accessible(k)
    /\ liveUntil' = [liveUntil EXCEPT ![k] = ExtendTtl(@)]
    /\ index' = ReindexToBack(k)
    /\ touch' = [touch EXCEPT ![k] = seq]
    /\ UNCHANGED <<seq, live>>

\* One entry of the admin's extend_entry_ttls.
ExtendEntryTtl(k) == Renew(k) /\ UNCHANGED rewards

\* Mutant of Payable: the pool balance is not a limit.
PayableIgnoresPool(requested) ==
    IF params.cap > 0 THEN Least(requested, params.cap) ELSE requested

\* keeper_reward_payable
Payable(requested) ==
    LET fromPool == Least(requested, pool)
        headroom == IF params.cap > spent THEN params.cap - spent ELSE 0
    IN  IF params.cap > 0 THEN Least(fromPool, headroom) ELSE fromPool

\* Mutant of Eligible: every tracked entry is eligible.
AlwaysEligible(k) == touch[k] # Never

\* keeper_entry_eligible
Eligible(k) == touch[k] # Never /\ Remaining(k) <= params.window

\* One entry of keeper_extend_entry_ttls: renewed even when nothing is payable.
KeeperExtendEntry(k) ==
    /\ Eligible(k)
    /\ Renew(k)
    /\ LET paid == Payable(params.perEntry)
       IN  /\ pool' = pool - paid
           /\ spent' = spent + paid
           /\ rewardedAt' = IF paid > 0 THEN [rewardedAt EXCEPT ![k] = seq] ELSE rewardedAt
    /\ UNCHANGED params

\* A keeper that renews what the first page of get_expiring_entries reports.
KeeperSweep == Expiring(1) # <<>> /\ KeeperExtendEntry(Expiring(1)[1])

FundKeeperRewardPool(amount) ==
    /\ amount > 0 /\ pool + amount <= MaxFunds
    /\ pool' = pool + amount
    /\ UNCHANGED <<seq, entries, params, spent, rewardedAt>>

SetKeeperRewardParams(rp) ==
    /\ params' = rp
    /\ UNCHANGED <<seq, entries, pool, spent, rewardedAt>>

-----------------------------------------------------------------------------
(* The ledger *)

\* The per-ledger spending record is keyed by the sequence, so it starts at 0.
NextLedger ==
    /\ seq < MaxSeq
    /\ seq' = seq + 1
    /\ spent' = 0
    /\ UNCHANGED <<entries, params, pool, rewardedAt>>

\* An archived entry is restored with the ledger's minimal TTL.
RestoreFootprint(k) ==
    /\ ~Accessible(k)
    /\ liveUntil' = [liveUntil EXCEPT ![k] = seq + MinTtl]
    /\ UNCHANGED <<seq, live, touch, index, rewards>>

Init ==
    /\ seq = 0
    /\ live = {}
    /\ liveUntil = [k \in Keys |-> 0]
    /\ touch = [k \in Keys |-> Never]
    /\ index = <<>>
    /\ params = [perEntry |-> 0, window |-> 0, cap |-> 0]
    /\ pool = 0
    /\ spent = 0
    /\ rewardedAt = [k \in Keys |-> Never]

Next ==
    \/ \E k \in Keys : SetScore(k)
    \/ \E k \in Keys : GetScore(k)
    \/ \E k \in Keys : ClearScore(k)
    \/ \E k \in Keys : ExtendEntryTtl(k)
    \/ \E k \in Keys : KeeperExtendEntry(k)
    \/ \E amount \in 1..MaxFunds : FundKeeperRewardPool(amount)
    \/ \E rp \in Params : SetKeeperRewardParams(rp)
    \/ NextLedger
    \/ \E k \in Keys : RestoreFootprint(k)

Spec == Init /\ [][Next]_vars

\* Keepers keep sweeping and archived entries are restored; nothing else is
\* promised, in particular not that scores are written or read again.
FairSpec == Spec /\ WF_vars(KeeperSweep) /\ \A k \in Keys : WF_vars(RestoreFootprint(k))

-----------------------------------------------------------------------------
(* Properties *)

\* The type of every variable; pool and spent are never negative.
TypeOK ==
    /\ seq \in 0..MaxSeq
    /\ live \subseteq Keys
    /\ liveUntil \in [Keys -> Nat]
    /\ touch \in [Keys -> 0..MaxSeq \cup {Never}]
    /\ index \in Seq(Keys)
    /\ params \in RewardParams
    /\ pool \in Nat /\ spent \in Nat
    /\ rewardedAt \in [Keys -> 0..MaxSeq \cup {Never}]

\* Front to back the queue is sorted by last touch and every queued entry has
\* been touched, whatever mix of writes, renewals and deletions built it and
\* also while the index is full: the claim the early exit of
\* get_expiring_entries rests on.
QueueSorted ==
    /\ \A i \in DOMAIN index : touch[index[i]] # Never
    /\ \A i, j \in DOMAIN index : i < j => touch[index[i]] <= touch[index[j]]

\* The queue never lists an entry twice.
QueueDistinct == \A i, j \in DOMAIN index : index[i] = index[j] => i = j

\* The early exit misses nothing: a page is what a full scan of the index for
\* due entries would have returned, most urgent first.
ExpiringIsComplete ==
    \A n \in 1..MaxPage :
       LET due == SelectSeq(index, Due) IN Expiring(n) = SubSeq(due, 1, Least(n, Len(due)))

\* A keeper is paid again for the same entry only after the entry has decayed
\* from the full threshold down to the reward window, whatever happened to
\* the entry in between.
PaidOncePerDecay ==
    [][\A k \in Keys :
          KeeperExtendEntry(k) /\ pool' < pool /\ rewardedAt[k] # Never
          => seq - rewardedAt[k] >= Threshold - params.window]_vars

\* A due entry does not stay due: keepers that only ever look at the first
\* reported entry reach every entry, because a renewed entry goes to the back
\* and an erased one leaves the queue.
DueIsRenewed == \A k \in Keys : (k \in Tracked /\ Due(k)) ~> ~(k \in Tracked /\ Due(k))

=============================================================================
