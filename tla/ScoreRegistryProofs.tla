------------------------ MODULE ScoreRegistryProofs ------------------------
(***************************************************************************)
(* Proofs about ScoreRegistry for any wallets, pairs, scores, depths and   *)
(* bounds.                                                                 *)
(***************************************************************************)
EXTENDS ScoreRegistry, FiniteSetTheorems, SequenceTheorems, TLAPS

\* push_score_history keeps the ring within the depth, adds at most one entry,
\* and leaves the pushed score as the newest entry.
LEMMA PushFacts ==
    ASSUME NEW h \in Seq(0..100), NEW s \in 0..100, depth \in 1..MaxDepth
    PROVE  /\ Push(h, s) \in Seq(0..100)
           /\ Len(Push(h, s)) <= depth
           /\ Len(Push(h, s)) <= Len(h) + 1
           /\ Push(h, s) # <<>>
           /\ Push(h, s)[Len(Push(h, s))] = s
           /\ \A i \in DOMAIN Push(h, s) : Push(h, s)[i] = s \/ \E j \in DOMAIN h : Push(h, s)[i] = h[j]
  <1> DEFINE r == Append(h, s)
             m == Larger(Len(r) - depth, 0) + 1
  <1>1. /\ r \in Seq(0..100) /\ Len(r) = Len(h) + 1 /\ r[Len(r)] = s
        /\ \A i \in 1..Len(h) : r[i] = h[i]
    OBVIOUS
  <1>2. MaxDepth \in Nat /\ depth \in Nat /\ depth >= 1
    BY BoundsAssumption
  <1>3. /\ m \in Int /\ m >= 1 /\ m <= Len(r) /\ Len(r) - m + 1 <= depth
    BY <1>1, <1>2 DEF Larger
  <1> HIDE DEF r, m
  <1>4. \A i \in m..Len(r) : r[i] \in 0..100
    <2>1. \A i \in 1..Len(r) : r[i] \in 0..100
      BY <1>1, ElementOfSeq
    <2> QED
      BY <1>1, <1>3, <2>1
  <1>5. /\ SubSeq(r, m, Len(r)) \in Seq(0..100)
        /\ Len(SubSeq(r, m, Len(r))) = Len(r) - m + 1
        /\ \A i \in 1..(Len(r) - m + 1) : SubSeq(r, m, Len(r))[i] = r[m + i - 1]
    BY <1>1, <1>3, <1>4, SubSeqProperties
  <1>6. Push(h, s) = SubSeq(r, m, Len(r))
    BY DEF Push, r, m
  <1>7. SubSeq(r, m, Len(r))[Len(r) - m + 1] = s
    BY <1>1, <1>3, <1>5
  <1>8. \A i \in 1..(Len(r) - m + 1) : r[m + i - 1] = s \/ \E j \in 1..Len(h) : r[m + i - 1] = h[j]
    BY SMTT(40), <1>1, <1>3
  <1> DEFINE q == SubSeq(r, m, Len(r))
  <1>9. /\ q \in Seq(0..100) /\ Len(q) = Len(r) - m + 1 /\ Len(q) <= depth /\ Len(q) <= Len(h) + 1
        /\ q[Len(q)] = s
    BY <1>1, <1>2, <1>3, <1>5, <1>7
  <1>10. \A i \in 1..Len(q) : q[i] = s \/ \E j \in 1..Len(h) : q[i] = h[j]
    BY <1>5, <1>8, <1>9
  <1>11. Len(q) >= 1
    BY <1>1, <1>3, <1>9
  <1> HIDE DEF q
  <1>12. q # <<>> /\ DOMAIN q = 1..Len(q) /\ DOMAIN h = 1..Len(h)
    BY <1>9, <1>11
  <1>13. Push(h, s) = q
    BY <1>6 DEF q
  <1> QED
    BY <1>9, <1>10, <1>12, <1>13

\* Bucket maps every score to one of the ten buckets.
LEMMA BucketType == ASSUME NEW s \in 0..100 PROVE Bucket(s) \in 0..9
  BY DEF Bucket

\* The histogram updates keep ten natural counters.
LEMMA HistogramType ==
    ASSUME NEW h \in [0..9 -> Nat], NEW prev \in 0..100 \cup {NoScore}, NEW s \in 0..100
    PROVE  Uncount(h, s) \in [0..9 -> Nat] /\ Recount(h, prev, s) \in [0..9 -> Nat]
  <1>1. \A x \in 0..100 : Uncount(h, x) \in [0..9 -> Nat]
    BY BucketType DEF Uncount, Larger
  <1>2. \A g \in [0..9 -> Nat] : [g EXCEPT ![Bucket(s)] = @ + 1] \in [0..9 -> Nat]
    BY BucketType
  <1>3. (IF prev = NoScore THEN h ELSE Uncount(h, prev)) \in [0..9 -> Nat]
    BY <1>1
  <1>4. Recount(h, prev, s) \in [0..9 -> Nat]
    BY <1>2, <1>3 DEF Recount
  <1> QED
    BY <1>1, <1>4

\* Any set of keys is finite.
LEMMA KeysFinite == IsFiniteSet(Keys)
  BY FiniteAssumption, FS_Product DEF Keys

-----------------------------------------------------------------------------
(* Type correctness *)

\* The writes shared by the submission paths keep their variables' types.
LEMMA StoreType ==
    ASSUME TypeOK, NEW k \in Keys, NEW s \in 0..100, Store(k, s)
    PROVE  /\ score' \in [Keys -> 0..100 \cup {NoScore}]
           /\ index' \subseteq Keys
           /\ history' \in [Keys -> Seq(0..100)]
           /\ pairs' \in [Wallets -> SUBSET Pairs]
           /\ scoreCount' \in [Keys -> Nat]
           /\ pairCount' \in [Pairs -> Nat]
  <1>1. k[1] \in Wallets /\ k[2] \in Pairs
    BY DEF Keys
  <1>2. score' \in [Keys -> 0..100 \cup {NoScore}]
    BY DEF Store, TypeOK
  <1>3. index' \subseteq Keys
    BY DEF Store, Track, TypeOK
  <1>4. history' \in [Keys -> Seq(0..100)]
    <2>1. history[k] \in Seq(0..100) /\ depth \in 1..MaxDepth
      BY DEF TypeOK
    <2>2. Push(history[k], s) \in Seq(0..100)
      BY <2>1, PushFacts
    <2> QED
      BY <2>2 DEF Store, TypeOK
  <1>5. pairs' \in [Wallets -> SUBSET Pairs]
    <2>1. pairs \in [Wallets -> SUBSET Pairs]
      BY DEF TypeOK
    <2>2. pairs' = [pairs EXCEPT ![k[1]] = @ \cup {k[2]}]
      BY DEF Store
    <2> QED
      BY <1>1, <2>1, <2>2
  <1>6. scoreCount' \in [Keys -> Nat]
    <2>1. scoreCount \in [Keys -> Nat]
      BY DEF TypeOK
    <2>2. scoreCount' = [scoreCount EXCEPT ![k] = @ + 1]
      BY DEF Store
    <2> QED
      BY <2>1, <2>2
  <1>7. pairCount' \in [Pairs -> Nat]
    <2>1. pairCount \in [Pairs -> Nat]
      BY DEF TypeOK
    <2>2. pairCount' = [pairCount EXCEPT ![k[2]] = @ + 1]
      BY DEF Store
    <2> QED
      BY <1>1, <2>1, <2>2
  <1> QED
    BY <1>2, <1>3, <1>4, <1>5, <1>6, <1>7

\* The full write keeps the types of the statistics too.
LEMMA WriteType ==
    ASSUME TypeOK, NEW k \in Keys, NEW s \in 0..100, WriteScore(k, s)
    PROVE  /\ totalWallets' \in Nat
           /\ histogram' \in [0..9 -> Nat]
           /\ histMax' \in [Keys -> 0..100 \cup {NoScore}]
  <1>1. totalWallets' \in Nat
    BY DEF WriteScore, CountIfNew, TypeOK
  <1>2. histogram' \in [0..9 -> Nat]
    BY HistogramType DEF WriteScore, TypeOK
  <1>3. histMax' \in [Keys -> 0..100 \cup {NoScore}]
    BY DEF WriteScore, TypeOK, Peak
  <1> QED
    BY <1>1, <1>2, <1>3

\* Every step keeps the type invariant.
LEMMA TypeStep == TypeOK /\ [Next]_vars => TypeOK'
  <1> SUFFICES ASSUME TypeOK, [Next]_vars PROVE TypeOK'
    OBVIOUS
  <1> USE DEF gates, config, stats, derived
  <1>0. Scores \subseteq 0..100 /\ Buffers \subseteq Nat
    BY ScoresAssumption, BuffersAssumption
  <1>1. ASSUME NEW k \in Keys, NEW s \in Scores, SubmitScore(k, s) PROVE TypeOK'
    <2>1. WriteScore(k, s) /\ Store(k, s) /\ s \in 0..100
      BY <1>0, <1>1 DEF SubmitScore, WriteScore
    <2> QED
      BY <1>1, <2>1, StoreType, WriteType DEF SubmitScore, TypeOK
  <1>2. ASSUME NEW k \in Keys, NEW s \in Scores, SubmitPending(k, s) PROVE TypeOK'
    <2>1. now + buffer \in Nat
      BY SMTT(40), <1>0, BoundsAssumption DEF TypeOK
    <2>2. [score |-> s, commitAfter |-> now + buffer] \in [score : 0..100, commitAfter : Nat]
      BY <1>0, <2>1
    <2>3. pending' \in [Keys -> [score : 0..100, commitAfter : Nat] \cup {NoPending}]
      BY <1>2, <2>2 DEF SubmitPending, TypeOK
    <2> QED
      BY <1>2, <2>3 DEF SubmitPending, TypeOK
  <1>3. ASSUME NEW k \in Keys, NEW s \in Scores, SubmitBatchEntry(k, s) \/ SubmitConsensusScore(k, s)
        PROVE  TypeOK'
    <2>1. /\ WriteScore(k, s) /\ Store(k, s) /\ s \in 0..100
          /\ UNCHANGED <<now, pending, config, gates>>
      BY <1>0, <1>3 DEF SubmitBatchEntry, SubmitConsensusScore, WriteScore
    <2> QED
      BY <2>1, StoreType, WriteType DEF TypeOK
  <1>4. ASSUME NEW k \in Keys, NEW s \in Scores, SubmitAttestedEntry(k, s) PROVE TypeOK'
    <2>1. Store(k, s) /\ s \in 0..100 /\ totalWallets' \in Nat
      BY <1>0, <1>4 DEF SubmitAttestedEntry, CountIfNew, TypeOK
    <2> QED
      BY <1>4, <2>1, StoreType DEF SubmitAttestedEntry, TypeOK
  <1>5. ASSUME NEW k \in Keys, CommitPendingScore(k) PROVE TypeOK'
    <2>1. pending[k] \in [score : 0..100, commitAfter : Nat]
      BY <1>5 DEF CommitPendingScore, TypeOK
    <2>2. Store(k, pending[k].score) /\ pending[k].score \in 0..100
      BY <1>5, <2>1 DEF CommitPendingScore
    <2>3. totalWallets' \in Nat
      BY <1>5 DEF CommitPendingScore, TypeOK
    <2>4. pending' \in [Keys -> [score : 0..100, commitAfter : Nat] \cup {NoPending}]
      BY <1>5 DEF CommitPendingScore, TypeOK
    <2> QED
      BY <1>5, <2>2, <2>3, <2>4, StoreType DEF CommitPendingScore, TypeOK
  <1>6. ASSUME NEW k \in Keys, CancelPendingScore(k) PROVE TypeOK'
    <2>1. pending' \in [Keys -> [score : 0..100, commitAfter : Nat] \cup {NoPending}]
      BY <1>6 DEF CancelPendingScore, TypeOK
    <2> QED
      BY <1>6, <2>1 DEF CancelPendingScore, TypeOK
  <1>7. ASSUME NEW k \in Keys, NEW s \in Scores, ResolveDisputeAdmin(k, s) PROVE TypeOK'
    <2>1. Store(k, s) /\ s \in 0..100
      BY <1>0, <1>7 DEF ResolveDisputeAdmin
    <2> QED
      BY <1>7, <2>1, StoreType DEF ResolveDisputeAdmin, TypeOK
  <1>8. ASSUME NEW cs \in SUBSET Wallets, NEW p \in Pairs, NEW b \in Boosts, PropagateContagion(cs, p, b)
        PROVE  TypeOK'
    <2>1. ASSUME NEW k \in Keys PROVE Boosted(k, b) \in 0..100
      <3>1. b \in Nat
        BY BoostsAssumption
      <3>2. score[k] \in 0..100 \cup {NoScore}
        BY DEF TypeOK
      <3>3. score[k] \in Int
        BY <3>2 DEF NoScore
      <3> QED
        BY <3>1, <3>3 DEF Boosted, Smaller, Larger
    <2>2. cs \X {p} \subseteq Keys
      BY DEF Keys
    <2>3. score' \in [Keys -> 0..100 \cup {NoScore}]
      BY <1>8, <2>1 DEF PropagateContagion, TypeOK
    <2>4. index' \subseteq Keys
      BY <1>8, <2>2 DEF PropagateContagion, TypeOK
    <2> QED
      BY <1>8, <2>3, <2>4 DEF PropagateContagion, TypeOK
  <1>9. ASSUME NEW k \in Keys, ClearScore(k) PROVE TypeOK'
    <2>1. histogram' \in [0..9 -> Nat]
      BY <1>9, HistogramType DEF ClearScore, TypeOK, Live
    <2>2. k[1] \in Wallets
      BY DEF Keys
    <2>3. pairs' \in [Wallets -> SUBSET Pairs] /\ index' \subseteq Keys
      BY <1>9, <2>2 DEF ClearScore, TypeOK
    <2>4. score' \in [Keys -> 0..100 \cup {NoScore}]
      BY <1>9 DEF ClearScore, TypeOK
    <2> QED
      BY <1>9, <2>1, <2>3, <2>4 DEF ClearScore, TypeOK
  <1>10. ASSUME NEW k \in Keys, ClearScoreHistory(k) PROVE TypeOK'
    <2>1. histogram' \in [0..9 -> Nat]
      BY <1>10, HistogramType DEF ClearScoreHistory, TypeOK, Live
    <2>2. history' \in [Keys -> Seq(0..100)]
      BY <1>10 DEF ClearScoreHistory, TypeOK
    <2> QED
      BY <1>10, <2>1, <2>2 DEF ClearScoreHistory, TypeOK
  <1>11. ASSUME NEW b \in Buffers, SetFinalityBuffer(b) PROVE TypeOK'
    BY <1>11 DEF SetFinalityBuffer, TypeOK
  <1>12. ASSUME NEW d \in 1..MaxDepth, ApplyHistoryDepth(d) PROVE TypeOK'
    BY <1>12 DEF ApplyHistoryDepth, TypeOK
  <1>13. ASSUME NEW fp \in FloorPolicies, SetScoreFloorPolicy(fp) PROVE TypeOK'
    BY <1>13, PoliciesAssumption DEF SetScoreFloorPolicy, TypeOK
  <1>14. ASSUME NEW k \in Keys, OverrideScoreFloor(k) PROVE TypeOK'
    <2>1. histMax' \in [Keys -> 0..100 \cup {NoScore}]
      BY <1>14 DEF OverrideScoreFloor, TypeOK
    <2> QED
      BY <1>14, <2>1 DEF OverrideScoreFloor, TypeOK
  <1>15. ASSUME NEW b \in BOOLEAN, SetPaused(b) \/ SetFrozen(b) \/ SetEpochOpen(b) PROVE TypeOK'
    <2>1. CASE SetPaused(b)
      BY <2>1 DEF SetPaused, TypeOK
    <2>2. CASE SetFrozen(b)
      BY <2>2 DEF SetFrozen, TypeOK
    <2>3. CASE SetEpochOpen(b)
      BY <2>3 DEF SetEpochOpen, TypeOK
    <2> QED
      BY <1>15, <2>1, <2>2, <2>3
  <1>16. ASSUME NEW p \in Pairs, NEW b \in BOOLEAN, SetPairPaused(p, b) PROVE TypeOK'
    <2>1. pausedPairs' \subseteq Pairs
      BY <1>16 DEF SetPairPaused, TypeOK
    <2> QED
      BY <1>16, <2>1 DEF SetPairPaused, TypeOK
  <1>17. CASE Tick
    <2>1. now' \in 0..MaxTime
      BY <1>17, BoundsAssumption DEF Tick, TypeOK
    <2> QED
      BY <1>17, <2>1 DEF Tick, TypeOK
  <1>18. CASE UNCHANGED vars
    BY <1>18 DEF vars, TypeOK
  <1> QED
    BY <1>1, <1>2, <1>3, <1>4, <1>5, <1>6, <1>7, <1>8, <1>9, <1>10, <1>11, <1>12, <1>13,
       <1>14, <1>15, <1>16, <1>17, <1>18 DEF Next

LEMMA TypeInit == Init => TypeOK
  <1> SUFFICES ASSUME Init PROVE TypeOK
    OBVIOUS
  <1>1. now \in 0..MaxTime /\ depth \in 1..MaxDepth
    BY BoundsAssumption DEF Init, Smaller
  <1>2. policy \in FloorPolicy
    BY DEF Init, FloorPolicy
  <1>3. history \in [Keys -> Seq(0..100)]
    BY DEF Init
  <1>4. /\ pairs \in [Wallets -> SUBSET Pairs] /\ index \subseteq Keys
        /\ scoreCount \in [Keys -> Nat] /\ pairCount \in [Pairs -> Nat]
        /\ totalWallets \in Nat /\ histogram \in [0..9 -> Nat]
    BY DEF Init
  <1>5. /\ score \in [Keys -> 0..100 \cup {NoScore}] /\ histMax \in [Keys -> 0..100 \cup {NoScore}]
        /\ pending \in [Keys -> [score : 0..100, commitAfter : Nat] \cup {NoPending}]
    BY DEF Init
  <1>6. /\ buffer \in Buffers \cup {0} /\ pausedPairs \subseteq Pairs
        /\ paused \in BOOLEAN /\ frozen \in BOOLEAN /\ epochOpen \in BOOLEAN
    BY DEF Init
  <1> QED
    BY <1>1, <1>2, <1>3, <1>4, <1>5, <1>6 DEF TypeOK

\* The type invariant holds in every reachable state.
THEOREM TypeCorrect == Spec => []TypeOK
  BY TypeInit, TypeStep, PTL DEF Spec

-----------------------------------------------------------------------------
(* The live score and the structures that mirror it *)

\* The inductive invariant behind the three safety theorems: each mirror is
\* bounded by what is live or was counted.
MirrorInv == RegisteredPairsAreLive /\ IndexedAreLive /\ HistoryWithinCount

\* The writes shared by the submission paths keep the mirrors consistent.
LEMMA StoreMirrors ==
    ASSUME TypeOK, MirrorInv, NEW k \in Keys, NEW s \in 0..100, Store(k, s)
    PROVE  MirrorInv'
  <1>1. /\ score \in [Keys -> 0..100 \cup {NoScore}]
        /\ pairs \in [Wallets -> SUBSET Pairs]
        /\ index \subseteq Keys
        /\ history \in [Keys -> Seq(0..100)]
        /\ scoreCount \in [Keys -> Nat]
        /\ depth \in 1..MaxDepth
    BY DEF TypeOK
  <1>2. /\ score' = [score EXCEPT ![k] = s]
        /\ index' = Track(k)
        /\ history' = [history EXCEPT ![k] = Push(@, s)]
        /\ pairs' = [pairs EXCEPT ![k[1]] = @ \cup {k[2]}]
        /\ scoreCount' = [scoreCount EXCEPT ![k] = @ + 1]
    BY DEF Store
  <1>3. s # NoScore
    BY DEF NoScore
  <1>4. RegisteredPairsAreLive'
    <2> SUFFICES ASSUME NEW w \in Wallets, NEW p \in pairs'[w] PROVE score'[<<w, p>>] # NoScore
      BY DEF RegisteredPairsAreLive, Live
    <2>1. k = <<k[1], k[2]>> /\ k[1] \in Wallets
      BY DEF Keys
    <2>2. p \in pairs[w] \/ <<w, p>> = k
      BY <1>1, <1>2, <2>1
    <2>3. p \in pairs[w] => <<w, p>> \in Keys /\ score[<<w, p>>] # NoScore
      BY <1>1 DEF MirrorInv, RegisteredPairsAreLive, Live, Keys
    <2> QED
      BY <1>1, <1>2, <1>3, <2>2, <2>3
  <1>5. IndexedAreLive'
    BY <1>1, <1>2, <1>3 DEF MirrorInv, IndexedAreLive, Live, Track
  <1>6. HistoryWithinCount'
    <2> SUFFICES ASSUME NEW j \in Keys
                 PROVE  Len(history'[j]) <= MaxDepth /\ Len(history'[j]) <= scoreCount'[j]
      BY DEF HistoryWithinCount
    <2>1. Len(history[j]) <= MaxDepth /\ Len(history[j]) <= scoreCount[j] /\ Len(history[j]) \in Nat
      BY <1>1 DEF MirrorInv, HistoryWithinCount
    <2>2. CASE j # k
      BY <1>1, <1>2, <2>1, <2>2
    <2>3. CASE j = k
      <3>1. Len(Push(history[k], s)) <= depth /\ Len(Push(history[k], s)) <= Len(history[k]) + 1
            /\ Push(history[k], s) \in Seq(0..100)
        BY <1>1, PushFacts
      <3>2. history'[j] = Push(history[k], s) /\ scoreCount'[j] = scoreCount[k] + 1
        BY <1>1, <1>2, <2>3
      <3>3. depth <= MaxDepth /\ depth \in Nat /\ MaxDepth \in Nat /\ scoreCount[k] \in Nat
        BY <1>1, BoundsAssumption
      <3>4. Len(Push(history[k], s)) \in Nat
        BY <3>1
      <3> QED
        BY <2>1, <2>3, <3>1, <3>2, <3>3, <3>4
    <2> QED
      BY <2>2, <2>3
  <1> QED
    BY <1>4, <1>5, <1>6 DEF MirrorInv

\* Every step keeps the mirrors consistent.
LEMMA MirrorStep == TypeOK /\ MirrorInv /\ [Next]_vars => MirrorInv'
  <1> SUFFICES ASSUME TypeOK, MirrorInv, [Next]_vars PROVE MirrorInv'
    OBVIOUS
  <1> USE DEF gates, config, stats, derived
  <1>1. ASSUME NEW k \in Keys, NEW s \in Scores,
               SubmitScore(k, s) \/ SubmitBatchEntry(k, s) \/ SubmitConsensusScore(k, s)
                  \/ SubmitAttestedEntry(k, s) \/ ResolveDisputeAdmin(k, s)
        PROVE  MirrorInv'
    <2>1. Store(k, s) /\ s \in 0..100
      BY <1>1, ScoresAssumption
      DEF SubmitScore, SubmitBatchEntry, SubmitConsensusScore, SubmitAttestedEntry,
          ResolveDisputeAdmin, WriteScore
    <2> QED
      BY <2>1, StoreMirrors
  <1>2. ASSUME NEW k \in Keys, CommitPendingScore(k) PROVE MirrorInv'
    <2>1. pending[k] \in [score : 0..100, commitAfter : Nat]
      BY <1>2 DEF CommitPendingScore, TypeOK
    <2>2. Store(k, pending[k].score) /\ pending[k].score \in 0..100
      BY <1>2, <2>1 DEF CommitPendingScore
    <2> QED
      BY <2>2, StoreMirrors
  <1>3. ASSUME NEW cs \in SUBSET Wallets, NEW p \in Pairs, NEW b \in Boosts, PropagateContagion(cs, p, b)
        PROVE  MirrorInv'
    <2>1. \A k \in Keys : Boosted(k, b) # NoScore
      <3> SUFFICES ASSUME NEW k \in Keys PROVE Boosted(k, b) # NoScore
        OBVIOUS
      <3>1. b \in Nat
        BY BoostsAssumption
      <3>2. score[k] \in 0..100 \cup {NoScore}
        BY DEF TypeOK
      <3>3. score[k] \in Int
        BY <3>2 DEF NoScore
      <3> QED
        BY <3>1, <3>3 DEF Boosted, Smaller, Larger, NoScore
    <2>2. PICK hit : /\ hit \subseteq cs \X {p}
                     /\ score' = [k \in Keys |-> IF k \in hit THEN Boosted(k, b) ELSE score[k]]
                     /\ \E tracked \in SUBSET (hit \ index) : index' = index \cup tracked
      BY <1>3 DEF PropagateContagion
    <2>3. \A k \in Keys : score[k] # NoScore \/ k \in hit => score'[k] # NoScore
      BY <2>1, <2>2
    <2>4. history' = history /\ pairs' = pairs /\ scoreCount' = scoreCount
      BY <1>3 DEF PropagateContagion
    <2>5. \A w \in Wallets : \A q \in pairs[w] : <<w, q>> \in Keys
      BY DEF TypeOK, Keys
    <2>6. hit \subseteq Keys /\ index \subseteq Keys
      BY SMTT(40), <2>2 DEF Keys, TypeOK
    <2>7. RegisteredPairsAreLive'
      BY <2>3, <2>4, <2>5 DEF MirrorInv, RegisteredPairsAreLive, Live
    <2>8. IndexedAreLive'
      BY <2>2, <2>3, <2>6 DEF MirrorInv, IndexedAreLive, Live
    <2> QED
      BY <2>4, <2>7, <2>8 DEF MirrorInv, HistoryWithinCount
  <1>4. ASSUME NEW k \in Keys, ClearScore(k) PROVE MirrorInv'
    <2>1. /\ score \in [Keys -> 0..100 \cup {NoScore}]
          /\ pairs \in [Wallets -> SUBSET Pairs]
          /\ index \subseteq Keys
      BY DEF TypeOK
    <2>0. k = <<k[1], k[2]>> /\ k[1] \in Wallets
      BY DEF Keys
    <2>2. /\ score' = [score EXCEPT ![k] = NoScore]
          /\ pairs' = [pairs EXCEPT ![k[1]] = @ \ {k[2]}]
          /\ index' = index \ {k}
          /\ history' = history /\ scoreCount' = scoreCount
      BY <1>4 DEF ClearScore
    <2>3. RegisteredPairsAreLive'
      <3> SUFFICES ASSUME NEW w \in Wallets, NEW p \in pairs'[w] PROVE score'[<<w, p>>] # NoScore
        BY DEF RegisteredPairsAreLive, Live
      <3>1. p \in pairs[w] /\ <<w, p>> # k
        BY <2>0, <2>1, <2>2
      <3>2. <<w, p>> \in Keys /\ score[<<w, p>>] # NoScore
        BY <2>1, <3>1 DEF MirrorInv, RegisteredPairsAreLive, Live, Keys
      <3> QED
        BY <2>1, <2>2, <3>1, <3>2
    <2>4. IndexedAreLive'
      BY <2>1, <2>2 DEF MirrorInv, IndexedAreLive, Live
    <2> QED
      BY <2>2, <2>3, <2>4 DEF MirrorInv, HistoryWithinCount
  <1>5. ASSUME NEW k \in Keys, ClearScoreHistory(k) PROVE MirrorInv'
    <2>1. /\ history' = [history EXCEPT ![k] = <<>>] /\ score' = score /\ index' = index
          /\ pairs' = pairs /\ scoreCount' = scoreCount
      BY <1>5 DEF ClearScoreHistory
    <2>2. history \in [Keys -> Seq(0..100)] /\ scoreCount \in [Keys -> Nat]
      BY DEF TypeOK
    <2>3. HistoryWithinCount'
      BY <2>1, <2>2, BoundsAssumption DEF MirrorInv, HistoryWithinCount
    <2> QED
      BY <2>1, <2>3 DEF MirrorInv, RegisteredPairsAreLive, IndexedAreLive, Live
  <1>6. CASE UNCHANGED <<score, index, history, pairs, scoreCount>>
    BY <1>6 DEF MirrorInv, RegisteredPairsAreLive, IndexedAreLive, HistoryWithinCount, Live
  <1> QED
    BY <1>1, <1>2, <1>3, <1>4, <1>5, <1>6
    DEF Next, vars, SubmitPending, CancelPendingScore, SetFinalityBuffer, ApplyHistoryDepth,
        SetScoreFloorPolicy, OverrideScoreFloor, SetPaused, SetFrozen, SetPairPaused,
        SetEpochOpen, Tick

LEMMA MirrorInit == Init => MirrorInv
  BY BoundsAssumption DEF Init, MirrorInv, RegisteredPairsAreLive, IndexedAreLive, HistoryWithinCount

\* A registered pair always has a live score, so compute_aggregate_score never
\* fails on a wallet's own registry.
THEOREM AggregateNeverMissesScore == Spec => []RegisteredPairsAreLive
  <1>1. TypeOK /\ MirrorInv /\ [Next]_vars => (TypeOK /\ MirrorInv)'
    BY TypeStep, MirrorStep
  <1>2. MirrorInv => RegisteredPairsAreLive
    BY DEF MirrorInv
  <1> QED
    BY TypeInit, MirrorInit, <1>1, <1>2, PTL DEF Spec

\* The entry index the TTL keepers walk holds only live scores.
THEOREM IndexNeverDangles == Spec => []IndexedAreLive
  <1>1. TypeOK /\ MirrorInv /\ [Next]_vars => (TypeOK /\ MirrorInv)'
    BY TypeStep, MirrorStep
  <1>2. MirrorInv => IndexedAreLive
    BY DEF MirrorInv
  <1> QED
    BY TypeInit, MirrorInit, <1>1, <1>2, PTL DEF Spec

\* No ring outgrows the maximal depth or the submissions counted for its key.
THEOREM RingsAreBounded == Spec => []HistoryWithinCount
  <1>1. TypeOK /\ MirrorInv /\ [Next]_vars => (TypeOK /\ MirrorInv)'
    BY TypeStep, MirrorStep
  <1>2. MirrorInv => HistoryWithinCount
    BY DEF MirrorInv
  <1> QED
    BY TypeInit, MirrorInit, <1>1, <1>2, PTL DEF Spec

-----------------------------------------------------------------------------
(* The histogram, when only the paths that maintain it are in use *)

\* The operations that change a live score, or the histogram, without the other.
Uncounted == {"buffer", "attested", "dispute", "contagion", "clearHistory"}

InBucket(b) == {k \in Keys : Live(k) /\ Bucket(score[k]) = b}

\* Nothing waits for a commit, and the histogram is exact.
CountedInv == buffer = 0 /\ (\A k \in Keys : pending[k] = NoPending) /\ HistogramExact

\* A bucket is a finite set, and adding or removing a key counts as expected.
LEMMA BucketCardinality ==
    ASSUME NEW b, NEW k
    PROVE  /\ Cardinality(InBucket(b)) \in Nat
           /\ Cardinality(InBucket(b) \cup {k}) =
                 IF k \in InBucket(b) THEN Cardinality(InBucket(b)) ELSE Cardinality(InBucket(b)) + 1
           /\ Cardinality(InBucket(b) \ {k}) =
                 IF k \in InBucket(b) THEN Cardinality(InBucket(b)) - 1 ELSE Cardinality(InBucket(b))
           /\ Cardinality(InBucket(b) \ {k}) \in Nat
  <1>1. InBucket(b) \in SUBSET Keys
    BY DEF InBucket
  <1>2. IsFiniteSet(InBucket(b))
    BY <1>1, KeysFinite, FS_Subset
  <1>3. IsFiniteSet(InBucket(b) \ {k})
    BY <1>2, FS_RemoveElement
  <1> QED
    BY <1>2, <1>3, FS_CardinalityType, FS_AddElement, FS_RemoveElement

\* update_histogram_on_write moves one key between buckets.
LEMMA RecountExact ==
    ASSUME TypeOK, HistogramExact, NEW k \in Keys, NEW s \in 0..100,
           score' = [score EXCEPT ![k] = s],
           histogram' = Recount(histogram, score[k], s)
    PROVE  HistogramExact'
  <1> SUFFICES ASSUME NEW b \in 0..9 PROVE histogram'[b] = Cardinality(InBucket(b)')
    BY DEF HistogramExact, InBucket
  <1> DEFINE A == InBucket(b)
             n == Cardinality(A)
  <1>1. score \in [Keys -> 0..100 \cup {NoScore}] /\ histogram \in [0..9 -> Nat]
    BY DEF TypeOK
  <1>2. histogram[b] = n
    BY DEF HistogramExact, InBucket
  <1>3. k \in A <=> score[k] # NoScore /\ Bucket(score[k]) = b
    BY DEF InBucket, Live
  <1>4. s # NoScore
    BY DEF NoScore
  <1>5. InBucket(b)' = IF Bucket(s) = b THEN A \cup {k} ELSE A \ {k}
    BY <1>1, <1>4 DEF InBucket, Live
  <1> DEFINE c == IF score[k] = NoScore THEN histogram ELSE Uncount(histogram, score[k])
  <1>6. c \in [0..9 -> Nat] /\ c[b] = IF k \in A THEN Larger(n - 1, 0) ELSE n
    <2>1. CASE score[k] = NoScore
      BY <1>1, <1>2, <1>3, <2>1
    <2>2. CASE score[k] # NoScore
      <3>1. Bucket(score[k]) \in 0..9
        BY <1>1, <2>2, BucketType
      <3>2. Uncount(histogram, score[k]) \in [0..9 -> Nat]
        BY <1>1, <2>2, HistogramType
      <3> QED
        BY <1>1, <1>2, <1>3, <2>2, <3>1, <3>2 DEF Uncount
    <2> QED
      BY <2>1, <2>2
  <1>7. histogram' = [c EXCEPT ![Bucket(s)] = @ + 1]
    BY DEF Recount
  <1> HIDE DEF c
  <1>8. histogram'[b] = IF Bucket(s) = b THEN c[b] + 1 ELSE c[b]
    BY <1>6, <1>7, BucketType
  <1>9. /\ n \in Nat /\ Cardinality(A \ {k}) \in Nat
        /\ Cardinality(A \cup {k}) = IF k \in A THEN n ELSE n + 1
        /\ Cardinality(A \ {k}) = IF k \in A THEN n - 1 ELSE n
    BY BucketCardinality
  <1> HIDE DEF A, n
  <1> QED
    BY <1>5, <1>6, <1>8, <1>9 DEF Larger

\* clear_score takes one live key out of its bucket.
LEMMA UncountExact ==
    ASSUME TypeOK, HistogramExact, NEW k \in Keys, ClearScore(k)
    PROVE  HistogramExact'
  <1> SUFFICES ASSUME NEW b \in 0..9 PROVE histogram'[b] = Cardinality(InBucket(b)')
    BY DEF HistogramExact, InBucket
  <1> DEFINE A == InBucket(b)
             n == Cardinality(A)
  <1>1. score \in [Keys -> 0..100 \cup {NoScore}] /\ histogram \in [0..9 -> Nat]
    BY DEF TypeOK
  <1>2. histogram[b] = n
    BY DEF HistogramExact, InBucket
  <1>3. k \in A <=> score[k] # NoScore /\ Bucket(score[k]) = b
    BY DEF InBucket, Live
  <1>4. /\ score' = [score EXCEPT ![k] = NoScore]
        /\ histogram' = IF score[k] # NoScore THEN Uncount(histogram, score[k]) ELSE histogram
    BY DEF ClearScore, Live
  <1>5. InBucket(b)' = A \ {k}
    BY <1>1, <1>4 DEF InBucket, Live
  <1>6. histogram'[b] = IF k \in A THEN Larger(n - 1, 0) ELSE n
    <2>1. CASE score[k] = NoScore
      BY <1>1, <1>2, <1>3, <1>4, <2>1
    <2>2. CASE score[k] # NoScore
      <3>1. Bucket(score[k]) \in 0..9
        BY <1>1, <2>2, BucketType
      <3> QED
        BY <1>1, <1>2, <1>3, <1>4, <2>2, <3>1 DEF Uncount
    <2> QED
      BY <2>1, <2>2
  <1>7. n \in Nat /\ Cardinality(A \ {k}) \in Nat /\ Cardinality(A \ {k}) = IF k \in A THEN n - 1 ELSE n
    BY BucketCardinality
  <1> HIDE DEF A, n
  <1> QED
    BY <1>5, <1>6, <1>7 DEF Larger

\* While only submit_score, submit_scores_batch and clear_score write, every
\* bucket of the histogram is the exact number of live scores in its range.
THEOREM HistogramIsExact ==
    ASSUME Ops \cap Uncounted = {}
    PROVE  Spec => []HistogramExact
  <1>1. Init => CountedInv
    <2> SUFFICES ASSUME Init PROVE CountedInv
      OBVIOUS
    <2>1. \A b \in 0..9 : InBucket(b) = {}
      BY DEF Init, InBucket, Live
    <2>2. \A b \in 0..9 : Cardinality(InBucket(b)) = 0 /\ histogram[b] = 0
      BY <2>1, FS_EmptySet DEF Init
    <2> QED
      BY <2>2 DEF Init, CountedInv, HistogramExact, InBucket
  <1>2. TypeOK /\ CountedInv /\ [Next]_vars => CountedInv'
    <2> SUFFICES ASSUME TypeOK, CountedInv, [Next]_vars PROVE CountedInv'
      OBVIOUS
    <2> USE DEF gates, config, stats, derived
    <2>0. /\ "buffer" \notin Ops /\ "attested" \notin Ops /\ "dispute" \notin Ops
          /\ "contagion" \notin Ops /\ "clearHistory" \notin Ops
      BY DEF Uncounted
    <2>1. ASSUME NEW k \in Keys, NEW s \in Scores,
                 SubmitScore(k, s) \/ SubmitBatchEntry(k, s) \/ SubmitConsensusScore(k, s)
          PROVE  CountedInv'
      <3>1. /\ score' = [score EXCEPT ![k] = s] /\ histogram' = Recount(histogram, score[k], s)
            /\ pending' = pending /\ buffer' = buffer /\ s \in 0..100
        BY <2>1, ScoresAssumption DEF SubmitScore, SubmitBatchEntry, SubmitConsensusScore, WriteScore, Store
      <3> QED
        BY <3>1, RecountExact DEF CountedInv
    <2>2. ASSUME NEW k \in Keys, ClearScore(k) PROVE CountedInv'
      <3>1. pending' = pending /\ buffer' = buffer
        BY <2>2 DEF ClearScore
      <3> QED
        BY <2>2, <3>1, UncountExact DEF CountedInv
    <2>3. ASSUME NEW b \in Buffers, SetFinalityBuffer(b) PROVE CountedInv'
      <3>1. b = 0
        BY <2>0, <2>3, BuffersAssumption DEF SetFinalityBuffer
      <3> QED
        BY <2>3, <3>1 DEF SetFinalityBuffer, CountedInv, HistogramExact, Live
    <2>4. CASE UNCHANGED <<score, histogram, pending, buffer>>
      BY <2>4 DEF CountedInv, HistogramExact, Live
    <2>5. ASSUME NEW k \in Keys, NEW s \in Scores
          PROVE  ~SubmitPending(k, s) /\ ~SubmitAttestedEntry(k, s) /\ ~ResolveDisputeAdmin(k, s)
      <3>1. ~SubmitPending(k, s)
        BY <2>0 DEF CountedInv, SubmitPending
      <3>2. ~SubmitAttestedEntry(k, s)
        BY <2>0, Zenon DEF SubmitAttestedEntry
      <3>3. ~ResolveDisputeAdmin(k, s)
        BY <2>0, Zenon DEF ResolveDisputeAdmin
      <3> QED
        BY <3>1, <3>2, <3>3, Zenon
    <2>6. ASSUME NEW k \in Keys
          PROVE  ~CommitPendingScore(k) /\ ~CancelPendingScore(k) /\ ~ClearScoreHistory(k)
      BY <2>0 DEF CountedInv, CommitPendingScore, CancelPendingScore, ClearScoreHistory
    <2>7. \A cs, p, b : ~PropagateContagion(cs, p, b)
      BY <2>0 DEF PropagateContagion
    <2>8. ASSUME \/ \E d \in 1..MaxDepth : ApplyHistoryDepth(d)
                 \/ \E fp \in FloorPolicies : SetScoreFloorPolicy(fp)
                 \/ \E k \in Keys : OverrideScoreFloor(k)
                 \/ \E b \in BOOLEAN : SetPaused(b) \/ SetFrozen(b) \/ SetEpochOpen(b)
                 \/ \E p \in Pairs, b \in BOOLEAN : SetPairPaused(p, b)
                 \/ Tick \/ UNCHANGED vars
          PROVE  UNCHANGED <<score, histogram, pending, buffer>>
      BY <2>8 DEF vars, ApplyHistoryDepth, SetScoreFloorPolicy, OverrideScoreFloor, SetPaused,
                  SetFrozen, SetPairPaused, SetEpochOpen, Tick
    <2> QED
      BY <2>1, <2>2, <2>3, <2>4, <2>5, <2>6, <2>7, <2>8 DEF Next
  <1>3. CountedInv => HistogramExact
    BY DEF CountedInv
  <1> QED
    BY TypeInit, TypeStep, <1>1, <1>2, <1>3, PTL DEF Spec
=============================================================================
