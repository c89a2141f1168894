--------------------------- MODULE ScoreRegistry ---------------------------
(***************************************************************************)
(* The score storage of the ledgerlens-score contract and every entry      *)
(* point that writes it.  A live score is mirrored in derived state: the   *)
(* history ring, the pair registry of the wallet, the entry index, three   *)
(* counters, the histogram behind the percentile gate, and the peak behind *)
(* the score floor.  Each write path updates its own selection of these,   *)
(* so their consistency is a property of sequences of calls by the         *)
(* service, the admin, keepers and the ledger clock.                       *)
(*                                                                         *)
(* An entry point is one transaction: a call that returns Err changes      *)
(* nothing and is a stuttering step.  The two batch entry points process   *)
(* their entries one after the other under the same checks; each accepted  *)
(* entry is a step of its own.  Authorisation, rate limiting and model     *)
(* versions decide WHETHER a submission is accepted and are left open: any *)
(* submission may be.                                                      *)
(***************************************************************************)
EXTENDS Integers, Sequences, FiniteSets, FiniteSetsExt

CONSTANTS
    Wallets,        \* scored addresses
    Pairs,          \* asset pairs
    Scores,         \* values a submission may carry
    Boosts,         \* boosts propagate_contagion may be called with
    Buffers,        \* finality buffers the admin may set (0 disables)
    MaxDepth,       \* MAX_HISTORY_DEPTH
    MaxTracked,     \* MAX_TRACKED_SCORE_ENTRIES
    FloorPolicies,  \* score floor policies the admin may set
    Ops,            \* the optional operations in use, a subset of AllOps
    MaxTime,        \* bound on the ledger timestamp
    MaxCount        \* bound on the counted submissions per asset pair

\* Operations an instance may leave out to ask about the others.
AllOps == {"buffer", "attested", "dispute", "contagion", "clearScore", "clearHistory",
           "overrideFloor", "pause", "freeze", "pausePair", "epoch"}

NoScore == -1

FloorPolicy == [enabled : BOOLEAN, high_water_mark : 50..100, floor_value : 0..99]

ASSUME ScoresAssumption == Scores \subseteq 0..100
ASSUME BoostsAssumption == Boosts \subseteq Nat
ASSUME BuffersAssumption == Buffers \subseteq Nat
ASSUME FiniteAssumption == IsFiniteSet(Wallets) /\ IsFiniteSet(Pairs)
ASSUME BoundsAssumption == /\ MaxDepth \in Nat \ {0}
                           /\ MaxTracked \in Nat
                           /\ MaxTime \in Nat
                           /\ MaxCount \in Nat
ASSUME PoliciesAssumption ==
    /\ FloorPolicies \subseteq FloorPolicy
    /\ \A fp \in FloorPolicies : fp.floor_value < fp.high_water_mark
ASSUME OpsAssumption == Ops \subseteq AllOps

VARIABLES
    now,          \* ledger timestamp
    score,        \* Score: the live score of each key, or NoScore
    history,      \* ScoreHistory: the ring, oldest first
    pairs,        \* AssetPairs: the pairs registered for each wallet
    index,        \* ScoreEntryIndex, as a set (EntryIndex.tla has the queue)
    scoreCount,   \* ScoreCount
    pairCount,    \* PairScoreCount
    totalWallets, \* TotalWalletsScored
    histogram,    \* ScoreHistogram: ten buckets
    histMax,      \* HistoricalMaxScore, or NoScore
    pending,      \* PendingScore: at most one per key
    buffer,       \* FinalityBuffer, in seconds
    depth,        \* HistoryMaxDepth
    policy,       \* ScoreFloorConfig
    paused, frozen, pausedPairs, epochOpen

derived == <<history, pairs, scoreCount, pairCount>>
stats == <<totalWallets, histogram, histMax>>
gates == <<paused, frozen, pausedPairs, epochOpen>>
config == <<buffer, depth, policy>>
vars == <<now, score, index, derived, stats, pending, config, gates>>

Keys == Wallets \X Pairs
NoPending == [score |-> NoScore, commitAfter |-> 0]

Live(k) == score[k] # NoScore
Larger(a, b) == IF a > b THEN a ELSE b
Smaller(a, b) == IF a < b THEN a ELSE b

-----------------------------------------------------------------------------
(* Storage helpers *)

\* Mutant of Push: the ring evicts the newest entry instead of the oldest.
PushEvictsNewest(h, s) == LET r == Append(h, s) IN SubSeq(r, 1, Smaller(Len(r), depth))

\* push_score_history: append, then drop from the front down to the depth.
Push(h, s) == LET r == Append(h, s)
              IN  SubSeq(r, Larger(Len(r) - depth, 0) + 1, Len(r))

Bucket(s) == IF s >= 100 THEN 9 ELSE s \div 10

\* update_histogram_on_clear: a saturating decrement.
Uncount(h, s) == [h EXCEPT ![Bucket(s)] = Larger(@ - 1, 0)]

\* Mutant of Recount: the bucket of the previous score keeps its count.
RecountKeepsPrevious(h, prev, s) == [h EXCEPT ![Bucket(s)] = @ + 1]

\* update_histogram_on_write
Recount(h, prev, s) ==
    LET cleared == IF prev = NoScore THEN h ELSE Uncount(h, prev)
    IN  [cleared EXCEPT ![Bucket(s)] = @ + 1]

\* update_historical_max_score: a first score of 0 is not recorded.
Peak(m, s) == IF s > Larger(m, 0) THEN s ELSE m

\* set_score tracks the key unless the index is full.
Track(k) == IF k \in index \/ Cardinality(index) < MaxTracked
            THEN index \cup {k} ELSE index

\* score_floor_blocks
FloorBlocks(k, s) == /\ policy.enabled
                     /\ Larger(histMax[k], 0) >= policy.high_water_mark
                     /\ s < policy.floor_value

\* The writes every submission path shares: live score, entry index, history,
\* pair registry, and the submission counters of the key and of the pair.
Store(k, s) ==
    /\ pairCount[k[2]] < MaxCount
    /\ score' = [score EXCEPT ![k] = s]
    /\ index' = Track(k)
    /\ history' = [history EXCEPT ![k] = Push(@, s)]
    /\ pairs' = [pairs EXCEPT ![k[1]] = @ \cup {k[2]}]
    /\ scoreCount' = [scoreCount EXCEPT ![k] = @ + 1]
    /\ pairCount' = [pairCount EXCEPT ![k[2]] = @ + 1]

\* Mutant of CountIfNew: the live score is looked up after the write.
CountTooLate(k) == totalWallets' = IF score'[k] # NoScore THEN totalWallets ELSE totalWallets + 1

\* The first live score of a key, as the paths that call peek_score see it.
CountIfNew(k) == totalWallets' = IF Live(k) THEN totalWallets ELSE totalWallets + 1

\* write_score_with_rate_limit once the limits have passed, and the accepting
\* branch of submit_scores_batch: these two maintain every derived structure.
WriteScore(k, s) ==
    /\ ~FloorBlocks(k, s)
    /\ Store(k, s)
    /\ CountIfNew(k)
    /\ histogram' = Recount(histogram, score[k], s)
    /\ histMax' = [histMax EXCEPT ![k] = Peak(@, s)]

-----------------------------------------------------------------------------
(* Entry points that submit *)

\* submit_score and relay_attested_score up to finalize_score_submission.
Accepting(k) == ~frozen /\ ~paused /\ k[2] \notin pausedPairs /\ epochOpen

SubmitScore(k, s) ==
    /\ Accepting(k)
    /\ buffer = 0
    /\ WriteScore(k, s)
    /\ UNCHANGED <<now, pending, config, gates>>

\* With a finality buffer the payload waits; an earlier one is overwritten.
SubmitPending(k, s) ==
    /\ Accepting(k)
    /\ buffer > 0
    /\ pending' = [pending EXCEPT ![k] = [score |-> s, commitAfter |-> now + buffer]]
    /\ UNCHANGED <<now, score, index, derived, stats, config, gates>>

\* One accepted entry of submit_scores_batch: neither frozen nor the buffer is read.
SubmitBatchEntry(k, s) ==
    /\ ~paused /\ epochOpen /\ k[2] \notin pausedPairs
    /\ WriteScore(k, s)
    /\ UNCHANGED <<now, pending, config, gates>>

\* reveal_consensus and submit_consensus_score, with the agreed score: the
\* global pause is the only gate, and the buffer is not read.
SubmitConsensusScore(k, s) ==
    /\ ~paused
    /\ WriteScore(k, s)
    /\ UNCHANGED <<now, pending, config, gates>>

\* Mutant of SubmitAttestedEntry: the pause check is missing.
AttestedIgnoresPause(k, s) ==
    /\ "attested" \in Ops
    /\ epochOpen
    /\ Store(k, s)
    /\ CountIfNew(k)
    /\ UNCHANGED <<now, histogram, histMax, pending, config, gates>>

\* One accepted entry of submit_scores_batch_attested.
SubmitAttestedEntry(k, s) ==
    /\ "attested" \in Ops
    /\ ~paused /\ epochOpen
    /\ Store(k, s)
    /\ CountIfNew(k)
    /\ UNCHANGED <<now, histogram, histMax, pending, config, gates>>

\* Permissionless; the elapsed window is the only condition.
CommitPendingScore(k) ==
    /\ pending[k] # NoPending
    /\ now >= pending[k].commitAfter
    /\ Store(k, pending[k].score)
    /\ totalWallets' = IF scoreCount'[k] = 1 THEN totalWallets + 1 ELSE totalWallets
    /\ pending' = [pending EXCEPT ![k] = NoPending]
    /\ UNCHANGED <<now, histogram, histMax, config, gates>>

CancelPendingScore(k) ==
    /\ pending[k] # NoPending
    /\ pending' = [pending EXCEPT ![k] = NoPending]
    /\ UNCHANGED <<now, score, index, derived, stats, config, gates>>

-----------------------------------------------------------------------------
(* Entry points that correct, derive or delete *)

\* resolve_dispute_admin writes the corrected score.  open_score_dispute does
\* not require a live score, so the key may never have been scored.
ResolveDisputeAdmin(k, s) ==
    /\ "dispute" \in Ops
    /\ ~paused
    /\ Store(k, s)
    /\ UNCHANGED <<now, stats, pending, config, gates>>

\* Mutant of Boosted: the cap of 100 is missing.
BoostedUncapped(k, boost) == Larger(score[k], 0) + boost

\* propagate_contagion over the counterparties cs of an anchor: a missing score
\* counts as 0, results are capped at 100, unchanged ones are not written.
Boosted(k, boost) == Smaller(Larger(score[k], 0) + boost, 100)

PropagateContagion(cs, p, boost) ==
    /\ "contagion" \in Ops
    /\ LET hit == {k \in cs \X {p} : Boosted(k, boost) # Larger(score[k], 0)}
           room == Smaller(Cardinality(hit \ index), Larger(MaxTracked - Cardinality(index), 0))
       IN  /\ hit # {}
           /\ score' = [k \in Keys |-> IF k \in hit THEN Boosted(k, boost) ELSE score[k]]
           /\ \E tracked \in SUBSET (hit \ index) :
                 /\ Cardinality(tracked) = room
                 /\ index' = index \cup tracked
    /\ UNCHANGED <<now, derived, stats, pending, config, gates>>

\* Mutant of ClearScore: the pair stays registered.
ClearKeepsPair(k) ==
    /\ "clearScore" \in Ops
    /\ score' = [score EXCEPT ![k] = NoScore]
    /\ index' = index \ {k}
    /\ UNCHANGED <<now, derived, stats, pending, config, gates>>

\* Mutant of ClearScore: the entry stays in the index.
ClearKeepsIndex(k) ==
    /\ "clearScore" \in Ops
    /\ score' = [score EXCEPT ![k] = NoScore]
    /\ pairs' = [pairs EXCEPT ![k[1]] = @ \ {k[2]}]
    /\ UNCHANGED <<now, history, scoreCount, pairCount, index, stats, pending, config, gates>>

\* Mutant of ClearScore: the submission counter of the key is erased too.
ClearResetsCount(k) ==
    /\ "clearScore" \in Ops
    /\ score' = [score EXCEPT ![k] = NoScore]
    /\ pairs' = [pairs EXCEPT ![k[1]] = @ \ {k[2]}]
    /\ index' = index \ {k}
    /\ scoreCount' = [scoreCount EXCEPT ![k] = 0]
    /\ UNCHANGED <<now, history, pairCount, stats, pending, config, gates>>

\* Mutant of ClearScore: the peak behind the floor is erased too.
ClearForgetsPeak(k) ==
    /\ "clearScore" \in Ops
    /\ histogram' = IF Live(k) THEN Uncount(histogram, score[k]) ELSE histogram
    /\ score' = [score EXCEPT ![k] = NoScore]
    /\ pairs' = [pairs EXCEPT ![k[1]] = @ \ {k[2]}]
    /\ index' = index \ {k}
    /\ histMax' = [histMax EXCEPT ![k] = NoScore]
    /\ UNCHANGED <<now, history, scoreCount, pairCount, totalWallets, pending, config, gates>>

\* clear_score: the histogram, the live score, its registration and index entry.
ClearScore(k) ==
    /\ "clearScore" \in Ops
    /\ histogram' = IF Live(k) THEN Uncount(histogram, score[k]) ELSE histogram
    /\ score' = [score EXCEPT ![k] = NoScore]
    /\ pairs' = [pairs EXCEPT ![k[1]] = @ \ {k[2]}]
    /\ index' = index \ {k}
    /\ UNCHANGED <<now, history, scoreCount, pairCount, totalWallets, histMax,
                   pending, config, gates>>

\* clear_score_history: the ring goes, and a live score leaves the histogram.
ClearScoreHistory(k) ==
    /\ "clearHistory" \in Ops
    /\ histogram' = IF Live(k) THEN Uncount(histogram, score[k]) ELSE histogram
    /\ history' = [history EXCEPT ![k] = <<>>]
    /\ UNCHANGED <<now, score, index, pairs, scoreCount, pairCount, totalWallets,
                   histMax, pending, config, gates>>

-----------------------------------------------------------------------------
(* Configuration, circuit breakers and the clock *)

SetFinalityBuffer(b) ==
    /\ b > 0 => "buffer" \in Ops
    /\ buffer' = b
    /\ UNCHANGED <<now, score, index, derived, stats, pending, depth, policy, gates>>

\* apply_param_change of the key hist_dep: the stored rings are not touched.
ApplyHistoryDepth(d) ==
    /\ depth' = d
    /\ UNCHANGED <<now, score, index, derived, stats, pending, buffer, policy, gates>>

SetScoreFloorPolicy(fp) ==
    /\ policy' = fp
    /\ UNCHANGED <<now, score, index, derived, stats, pending, buffer, depth, gates>>

OverrideScoreFloor(k) ==
    /\ "overrideFloor" \in Ops
    /\ histMax' = [histMax EXCEPT ![k] = NoScore]
    /\ UNCHANGED <<now, score, index, derived, totalWallets, histogram, pending,
                   config, gates>>

SetPaused(b) ==
    /\ "pause" \in Ops
    /\ paused' = b
    /\ UNCHANGED <<now, score, index, derived, stats, pending, config, frozen,
                   pausedPairs, epochOpen>>

SetFrozen(b) ==
    /\ "freeze" \in Ops
    /\ frozen' = b
    /\ UNCHANGED <<now, score, index, derived, stats, pending, config, paused,
                   pausedPairs, epochOpen>>

SetPairPaused(p, b) ==
    /\ "pausePair" \in Ops
    /\ pausedPairs' = IF b THEN pausedPairs \cup {p} ELSE pausedPairs \ {p}
    /\ UNCHANGED <<now, score, index, derived, stats, pending, config, paused,
                   frozen, epochOpen>>

SetEpochOpen(b) ==
    /\ "epoch" \in Ops
    /\ epochOpen' = b
    /\ UNCHANGED <<now, score, index, derived, stats, pending, config, paused,
                   frozen, pausedPairs>>

Tick ==
    /\ now < MaxTime
    /\ now' = now + 1
    /\ UNCHANGED <<score, index, derived, stats, pending, config, gates>>

-----------------------------------------------------------------------------
Init ==
    /\ now = 0
    /\ score = [k \in Keys |-> NoScore]
    /\ history = [k \in Keys |-> <<>>]
    /\ pairs = [w \in Wallets |-> {}]
    /\ index = {}
    /\ scoreCount = [k \in Keys |-> 0]
    /\ pairCount = [p \in Pairs |-> 0]
    /\ totalWallets = 0
    /\ histogram = [b \in 0..9 |-> 0]
    /\ histMax = [k \in Keys |-> NoScore]
    /\ pending = [k \in Keys |-> NoPending]
    /\ buffer = 0
    /\ depth = Smaller(10, MaxDepth)
    /\ policy = [enabled |-> FALSE, high_water_mark |-> 80, floor_value |-> 20]
    /\ paused = FALSE /\ frozen = FALSE /\ pausedPairs = {} /\ epochOpen = TRUE

Next ==
    \/ \E k \in Keys, s \in Scores : SubmitScore(k, s)
    \/ \E k \in Keys, s \in Scores : SubmitPending(k, s)
    \/ \E k \in Keys, s \in Scores : SubmitBatchEntry(k, s)
    \/ \E k \in Keys, s \in Scores : SubmitConsensusScore(k, s)
    \/ \E k \in Keys, s \in Scores : SubmitAttestedEntry(k, s)
    \/ \E k \in Keys : CommitPendingScore(k)
    \/ \E k \in Keys : CancelPendingScore(k)
    \/ \E k \in Keys, s \in Scores : ResolveDisputeAdmin(k, s)
    \/ \E cs \in SUBSET Wallets, p \in Pairs, b \in Boosts : PropagateContagion(cs, p, b)
    \/ \E k \in Keys : ClearScore(k)
    \/ \E k \in Keys : ClearScoreHistory(k)
    \/ \E b \in Buffers : SetFinalityBuffer(b)
    \/ \E d \in 1..MaxDepth : ApplyHistoryDepth(d)
    \/ \E fp \in FloorPolicies : SetScoreFloorPolicy(fp)
    \/ \E k \in Keys : OverrideScoreFloor(k)
    \/ \E b \in BOOLEAN : SetPaused(b)
    \/ \E b \in BOOLEAN : SetFrozen(b)
    \/ \E p \in Pairs, b \in BOOLEAN : SetPairPaused(p, b)
    \/ \E b \in BOOLEAN : SetEpochOpen(b)
    \/ Tick

Spec == Init /\ [][Next]_vars

-----------------------------------------------------------------------------
(* Properties *)

\* The type of every variable (the storage layout of storage.rs).
TypeOK ==
    /\ now \in 0..MaxTime
    /\ score \in [Keys -> 0..100 \cup {NoScore}]
    /\ history \in [Keys -> Seq(0..100)]
    /\ pairs \in [Wallets -> SUBSET Pairs]
    /\ index \subseteq Keys
    /\ scoreCount \in [Keys -> Nat]
    /\ pairCount \in [Pairs -> Nat]
    /\ totalWallets \in Nat
    /\ histogram \in [0..9 -> Nat]
    /\ histMax \in [Keys -> 0..100 \cup {NoScore}]
    /\ pending \in [Keys -> [score : 0..100, commitAfter : Nat] \cup {NoPending}]
    /\ buffer \in Buffers \cup {0}
    /\ depth \in 1..MaxDepth
    /\ policy \in FloorPolicy
    /\ paused \in BOOLEAN /\ frozen \in BOOLEAN /\ epochOpen \in BOOLEAN
    /\ pausedPairs \subseteq Pairs

\* Every pair registered for a wallet has a live score, so the loop of
\* compute_aggregate_score over the registered pairs never meets a missing one
\* and fails the whole aggregate, whatever was submitted, committed, corrected,
\* boosted or erased before.
RegisteredPairsAreLive == \A w \in Wallets : \A p \in pairs[w] : Live(<<w, p>>)

\* Every indexed entry has a live score: the TTL keepers that walk the entry
\* index never spend their page on an entry that was erased.
IndexedAreLive == \A k \in index : Live(k)

\* The ring never outgrows the largest depth ever allowed, nor the number of
\* submissions counted for the key, even though depth changes do not touch the
\* stored rings, deletions do not touch the counter, and contagion neither.
HistoryWithinCount ==
    \A k \in Keys : Len(history[k]) <= MaxDepth /\ Len(history[k]) <= scoreCount[k]

\* The per-pair submission counter is the sum of the per-key counters over all
\* five write paths that count, and no deletion disturbs either side.
PairCountIsSum ==
    \A p \in Pairs : pairCount[p] = MapThenSumSet(LAMBDA w : scoreCount[<<w, p>>], Wallets)

\* While the contract is paused no new information reaches a live score: it can
\* only be erased, raised by contagion, or replaced by a submission that was
\* already waiting and whose finality window has elapsed.
PauseAdmitsNoNewScore ==
    [][paused => \A k \in Keys :
          \/ score'[k] = score[k]
          \/ score'[k] = NoScore
          \/ "contagion" \in Ops /\ score'[k] > score[k] /\ scoreCount' = scoreCount
          \/ score'[k] = pending[k].score /\ now >= pending[k].commitAfter]_vars

\* When only the direct, batched and consensus submissions and clear_score are
\* in use, every histogram bucket holds exactly the number of live scores in
\* its range, so the percentile gate ranks a score against the real population.
HistogramExact ==
    \A b \in 0..9 : histogram[b] = Cardinality({k \in Keys : Live(k) /\ Bucket(score[k]) = b})

\* A registered pair's live score is its newest ring entry, across direct,
\* pending, attested and corrected writes, depth changes and deletions, unless
\* contagion has raised it since: trend and momentum start from the live score.
LiveFollowsHistory ==
    \A k \in Keys : k[2] \in pairs[k[1]] /\ history[k] # <<>> =>
       LET newest == history[k][Len(history[k])]
       IN  score[k] = newest \/ ("contagion" \in Ops /\ score[k] > newest)

\* When only the direct, batched and consensus submissions and clear_score are
\* in use, TotalWalletsScored covers every key that has ever been counted: the
\* test for a first write (no live score) may count a key again after an
\* erasure and never misses one.
TotalCoversScored == totalWallets >= Cardinality({k \in Keys : scoreCount[k] > 0})

\* When only direct, batched and consensus submissions write and no override is
\* given, a key whose live score or ring shows a peak at or above the
\* high-water mark never receives a score below the floor while the policy is
\* enabled, also after its score was erased or the policy was set later.
FloorHoldsAfterPeak ==
    [][policy.enabled =>
          \A k \in Keys :
             /\ score'[k] \notin {score[k], NoScore}
             /\ \/ score[k] >= policy.high_water_mark
                \/ \E i \in DOMAIN history[k] : history[k][i] >= policy.high_water_mark
             => score'[k] >= policy.floor_value]_vars

-----------------------------------------------------------------------------
(* What comments and documents say of this state, where the code differs *)

\* freeze_contract: while frozen all mutating operations are rejected, so no
\* live score changes.
FrozenRejectsWrites == [][frozen => score' = score]_vars
=============================================================================
