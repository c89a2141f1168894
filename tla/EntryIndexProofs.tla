-------------------------- MODULE EntryIndexProofs --------------------------
(***************************************************************************)
(* Proofs about EntryIndex for any entries, TTL constants and capacities:  *)
(* the queue stays sorted by last touch and free of duplicates, which is   *)
(* what the early exit of get_expiring_entries needs.                      *)
(***************************************************************************)
EXTENDS EntryIndex, SeqLemmas

-----------------------------------------------------------------------------
(* What the two operations on the queue do to it *)

\* A queue is well formed if it lists keys, without duplicates, all touched,
\* in the order of their touches, which lie in the past.
Ordered(q, t) ==
    /\ \A i, j \in 1..Len(q) : q[i] = q[j] => i = j
    /\ \A i \in 1..Len(q) : t[q[i]] # Never
    /\ \A i, j \in 1..Len(q) : i < j => t[q[i]] <= t[q[j]]

\* Removing an entry keeps the order of the others, and the entry is gone.
LEMMA RemoveKeepsOrder ==
    ASSUME NEW q \in Seq(Keys), NEW t \in [Keys -> Int], Ordered(q, t), NEW k \in Keys
    PROVE  /\ RemoveFirst(q, k) \in Seq(Keys)
           /\ Ordered(RemoveFirst(q, k), t)
           /\ \A j \in 1..Len(RemoveFirst(q, k)) : RemoveFirst(q, k)[j] # k
           /\ \A j \in 1..Len(RemoveFirst(q, k)) : \E i \in 1..Len(q) : RemoveFirst(q, k)[j] = q[i]
  <1>1. CASE \E i \in 1..Len(q) : q[i] = k
    <2>1. PICK i \in 1..Len(q) : q[i] = k
      BY <1>1
    <2> DEFINE r == RemoveAt(q, i)
               at(j) == IF j < i THEN j ELSE j + 1
    <2>2. \A j \in 1..Len(q) : q[j] = k => j = i
      BY <2>1 DEF Ordered
    <2>3. RemoveFirst(q, k) = r
      BY <2>1, <2>2, RemoveFirstFacts
    <2>4. r \in Seq(Keys) /\ Len(r) = Len(q) - 1 /\ \A j \in 1..(Len(q) - 1) : r[j] = q[at(j)]
      BY RemoveAtFacts
    <2> HIDE DEF r
    <2>5. \A j \in 1..Len(r) : r[j] = q[at(j)] /\ at(j) \in 1..Len(q) /\ at(j) # i
      <3> SUFFICES ASSUME NEW j \in 1..Len(r) PROVE r[j] = q[at(j)] /\ at(j) \in 1..Len(q) /\ at(j) # i
        OBVIOUS
      <3>1. Len(r) = Len(q) - 1 /\ j \in 1..(Len(q) - 1)
        BY <2>4
      <3>2. r[j] = q[at(j)]
        <4> HIDE DEF at
        <4> QED BY <2>4, <3>1
      <3>3. Len(q) \in Nat /\ j \in Int /\ i \in Int
        OBVIOUS
      <3>4. at(j) \in 1..Len(q) /\ at(j) # i
        BY <3>1, <3>3
      <3> QED
        BY <3>2, <3>4
    <2>6. \A j, m \in 1..Len(r) : (at(j) = at(m) => j = m) /\ (j < m => at(j) < at(m))
      <3>1. i \in Int /\ Len(r) \in Int
        BY <2>4
      <3>2. \A j, m \in Int : at(j) = at(m) => j = m
        BY <3>1
      <3>3. \A j, m \in Int : j < m => at(j) < at(m)
        BY <3>1
      <3> QED
        BY <3>1, <3>2, <3>3
    <2> HIDE DEF at
    <2>7. Ordered(r, t)
      <3>1. \A j, m \in 1..Len(r) : r[j] = r[m] => j = m
        <4> SUFFICES ASSUME NEW j \in 1..Len(r), NEW m \in 1..Len(r), r[j] = r[m] PROVE j = m
          OBVIOUS
        <4>1. at(j) \in 1..Len(q) /\ at(m) \in 1..Len(q) /\ q[at(j)] = q[at(m)]
          BY <2>5
        <4>2. \A a, b \in 1..Len(q) : q[a] = q[b] => a = b
          BY Zenon DEF Ordered
        <4>3. at(j) = at(m)
          BY <4>1, <4>2
        <4> QED
          BY <2>6, <4>3
      <3>2. \A j \in 1..Len(r) : t[r[j]] # Never
        <4>1. \A a \in 1..Len(q) : t[q[a]] # Never
          BY Zenon DEF Ordered
        <4> SUFFICES ASSUME NEW j \in 1..Len(r) PROVE t[r[j]] # Never
          OBVIOUS
        <4>2. r[j] = q[at(j)] /\ at(j) \in 1..Len(q)
          BY <2>5
        <4> QED
          BY <4>1, <4>2
      <3>3. \A j, m \in 1..Len(r) : j < m => t[r[j]] <= t[r[m]]
        <4> SUFFICES ASSUME NEW j \in 1..Len(r), NEW m \in 1..Len(r), j < m PROVE t[r[j]] <= t[r[m]]
          OBVIOUS
        <4>1. at(j) < at(m) /\ at(j) \in 1..Len(q) /\ at(m) \in 1..Len(q)
          BY <2>5, <2>6
        <4>2. t[q[at(j)]] <= t[q[at(m)]]
          BY <4>1 DEF Ordered
        <4> QED
          BY <2>5, <4>2
      <3> QED
        BY <3>1, <3>2, <3>3 DEF Ordered
    <2>8. \A j \in 1..Len(r) : r[j] # k
      BY <2>2, <2>5
    <2> QED
      BY <2>3, <2>4, <2>5, <2>7, <2>8
  <1>2. CASE ~\E i \in 1..Len(q) : q[i] = k
    <2>1. RemoveFirst(q, k) = q
      BY <1>2 DEF RemoveFirst
    <2> QED
      BY <1>2, <2>1
  <1> QED
    BY <1>1, <1>2

\* Appending an entry that is absent, with a touch no earlier than the others,
\* keeps the order.
LEMMA AppendKeepsOrder ==
    ASSUME NEW q \in Seq(Keys), NEW t \in [Keys -> Int], Ordered(q, t), NEW k \in Keys, NEW now \in Nat,
           \A i \in 1..Len(q) : q[i] # k /\ t[q[i]] <= now
    PROVE  Append(q, k) \in Seq(Keys) /\ Ordered(Append(q, k), [t EXCEPT ![k] = now])
  <1> DEFINE r == Append(q, k)
             u == [t EXCEPT ![k] = now]
  <1>1. /\ r \in Seq(Keys) /\ Len(r) = Len(q) + 1 /\ r[Len(q) + 1] = k
        /\ \A i \in 1..Len(q) : r[i] = q[i]
    OBVIOUS
  <1>2. \A i \in 1..Len(q) : q[i] \in Keys
    BY ElementOfSeq
  <1>3. u[k] = now /\ \A i \in 1..Len(q) : u[q[i]] = t[q[i]]
    BY <1>2
  <1>4. now # Never /\ Len(q) \in Nat
    BY DEF Never
  <1> HIDE DEF r, u
  <1>5. \A i \in 1..Len(r) : i \in 1..Len(q) \/ i = Len(q) + 1
    BY <1>1, <1>4
  <1>6. \A i \in 1..Len(q) : u[r[i]] = t[q[i]] /\ t[q[i]] <= now
    BY <1>1, <1>3
  <1>7. u[r[Len(q) + 1]] = now
    BY <1>1, <1>3
  <1>8. \A i, j \in 1..Len(r) : r[i] = r[j] => i = j
    <2> SUFFICES ASSUME NEW i \in 1..Len(r), NEW j \in 1..Len(r), r[i] = r[j] PROVE i = j
      OBVIOUS
    <2>1. \A m \in 1..Len(q) : r[m] # r[Len(q) + 1]
      BY <1>1
    <2>2. CASE i \in 1..Len(q) /\ j \in 1..Len(q)
      <3>1. q[i] = q[j]
        BY <1>1, <2>2
      <3> QED
        BY <2>2, <3>1 DEF Ordered
    <2> QED
      BY <1>5, <2>1, <2>2
  <1>9. \A i \in 1..Len(r) : u[r[i]] # Never
    BY <1>4, <1>5, <1>6, <1>7 DEF Ordered
  <1>10. \A i, j \in 1..Len(r) : i < j => u[r[i]] <= u[r[j]]
    <2> SUFFICES ASSUME NEW i \in 1..Len(r), NEW j \in 1..Len(r), i < j PROVE u[r[i]] <= u[r[j]]
      OBVIOUS
    <2>1. i \in 1..Len(q)
      BY <1>1, <1>4
    <2>2. CASE j \in 1..Len(q)
      BY <1>6, <2>1, <2>2 DEF Ordered
    <2>3. CASE j = Len(q) + 1
      BY <1>6, <1>7, <2>1, <2>3
    <2> QED
      BY <1>5, <2>2, <2>3
  <1>11. Ordered(r, u)
    BY <1>8, <1>9, <1>10 DEF Ordered
  <1> QED
    BY <1>1, <1>11 DEF r, u

-----------------------------------------------------------------------------
(* The inductive invariant *)

\* Touches lie in the past, so what is touched now belongs at the back; a paid
\* renewal touched its entry, so the last touch is no earlier than it.
QueueInv ==
    /\ TypeOK
    /\ Ordered(index, touch)
    /\ \A k \in Keys : touch[k] <= seq
    /\ \A k \in Keys : rewardedAt[k] <= touch[k]

\* The types the steps below work with.
LEMMA Types ==
    ASSUME TypeOK
    PROVE  /\ seq \in Nat /\ seq <= MaxSeq /\ MaxSeq \in Nat
           /\ index \in Seq(Keys)
           /\ touch \in [Keys -> Int] /\ rewardedAt \in [Keys -> Int]
           /\ pool \in Nat /\ spent \in Nat
           /\ params.perEntry \in Nat /\ params.window \in Nat /\ params.cap \in Nat
  <1>1. touch \in [Keys -> 0..MaxSeq \cup {Never}] /\ rewardedAt \in [Keys -> 0..MaxSeq \cup {Never}]
    BY DEF TypeOK
  <1>2. 0..MaxSeq \cup {Never} \subseteq Int
    BY LimitsAssumption DEF Never
  <1>3. touch \in [Keys -> Int] /\ rewardedAt \in [Keys -> Int]
    BY <1>1, <1>2
  <1>4. params \in RewardParams
    BY DEF TypeOK
  <1>5. params.perEntry \in Nat /\ params.window \in Nat /\ params.cap \in Nat
    BY <1>4, TtlAssumption DEF RewardParams
  <1> QED
    BY <1>3, <1>5, LimitsAssumption DEF TypeOK

\* A written or renewed entry goes to the back and is touched: the queue stays
\* in order, also when a full index does not take the entry.
LEMMA ReindexKeepsOrder ==
    ASSUME QueueInv, NEW k \in Keys
    PROVE  /\ ReindexToBack(k) \in Seq(Keys)
           /\ Ordered(ReindexToBack(k), [touch EXCEPT ![k] = seq])
  <1>1. index \in Seq(Keys) /\ touch \in [Keys -> Int] /\ seq \in Nat /\ Ordered(index, touch)
    BY Types DEF QueueInv
  <1>2. \A i \in 1..Len(index) : index[i] \in Keys /\ touch[index[i]] <= seq
    BY <1>1, ElementOfSeq DEF QueueInv
  <1>3. DOMAIN index = 1..Len(index)
    BY <1>1
  <1>4. CASE k \in Tracked
    <2> DEFINE q == RemoveFirst(index, k)
    <2>1. /\ q \in Seq(Keys) /\ Ordered(q, touch)
          /\ \A j \in 1..Len(q) : q[j] # k
          /\ \A j \in 1..Len(q) : \E i \in 1..Len(index) : q[j] = index[i]
      BY <1>1, RemoveKeepsOrder
    <2> HIDE DEF q
    <2>2. \A j \in 1..Len(q) : q[j] # k /\ touch[q[j]] <= seq
      BY <1>2, <2>1
    <2>3. Append(q, k) \in Seq(Keys) /\ Ordered(Append(q, k), [touch EXCEPT ![k] = seq])
      BY <1>1, <2>1, <2>2, AppendKeepsOrder
    <2> QED
      BY <1>4, <2>3 DEF ReindexToBack, q
  <1>5. CASE k \notin Tracked
    <2>1. \A i \in 1..Len(index) : index[i] # k
      BY <1>3, <1>5 DEF Tracked
    <2>2. Append(index, k) \in Seq(Keys) /\ Ordered(Append(index, k), [touch EXCEPT ![k] = seq])
      BY <1>1, <1>2, <2>1, AppendKeepsOrder
    <2>3. \A i \in 1..Len(index) : [touch EXCEPT ![k] = seq][index[i]] = touch[index[i]]
      BY <1>1, <1>2, <2>1
    <2>4. Ordered(index, [touch EXCEPT ![k] = seq])
      BY <1>1, <2>3 DEF Ordered
    <2> QED
      BY <1>1, <1>5, <2>2, <2>4 DEF ReindexToBack
  <1> QED
    BY <1>4, <1>5

LEMMA QueueInit == Init => QueueInv
  <1> SUFFICES ASSUME Init PROVE QueueInv
    OBVIOUS
  <1>1. TypeOK
    BY TtlAssumption, LimitsAssumption DEF Init, TypeOK, RewardParams, Never
  <1>2. Ordered(index, touch)
    BY DEF Init, Ordered
  <1> QED
    BY <1>1, <1>2 DEF Init, QueueInv, Never

\* What a keeper is paid is covered by the pool.
LEMMA PayableWithinPool ==
    ASSUME TypeOK, NEW requested \in Nat
    PROVE  Payable(requested) \in Nat /\ Payable(requested) <= pool
  BY SMTT(40), Types DEF Payable, Least

\* The ledger's rule never yields a negative bound.
LEMMA ExtendTtlType ==
    ASSUME TypeOK, NEW until \in Nat
    PROVE  ExtendTtl(until) \in Nat
  BY Types, TtlAssumption DEF ExtendTtl

\* Touching an entry now keeps the facts about touches.
LEMMA TouchFacts ==
    ASSUME QueueInv, NEW k \in Keys, touch' = [touch EXCEPT ![k] = seq], seq' = seq
    PROVE  /\ touch' \in [Keys -> 0..MaxSeq \cup {Never}]
           /\ \A x \in Keys : touch'[x] <= seq'
           /\ \A x \in Keys : rewardedAt[x] <= touch'[x]
           /\ touch'[k] = seq
  <1>1. touch \in [Keys -> 0..MaxSeq \cup {Never}] /\ seq \in 0..MaxSeq
    BY DEF QueueInv, TypeOK
  <1>2. seq \in Nat /\ touch \in [Keys -> Int] /\ rewardedAt \in [Keys -> Int]
    BY Types DEF QueueInv
  <1>3. \A x \in Keys : touch'[x] = IF x = k THEN seq ELSE touch[x]
    BY <1>2
  <1>4. \A x \in Keys : touch[x] <= seq /\ rewardedAt[x] <= touch[x]
    BY DEF QueueInv
  <1>5. touch' \in [Keys -> 0..MaxSeq \cup {Never}]
    BY <1>1
  <1> QED
    BY <1>2, <1>3, <1>4, <1>5

LEMMA SetScoreStep == ASSUME QueueInv, NEW k \in Keys, SetScore(k) PROVE QueueInv'
  <1>1. /\ touch' = [touch EXCEPT ![k] = seq] /\ index' = ReindexToBack(k) /\ seq' = seq
        /\ live' = live \cup {k} /\ UNCHANGED rewards
    BY DEF SetScore
  <1>2. index' \in Seq(Keys) /\ Ordered(index', touch')
    BY <1>1, ReindexKeepsOrder
  <1>3. liveUntil' \in [Keys -> Nat]
    <2> DEFINE until == IF k \in live THEN liveUntil[k] ELSE seq + MinTtl
    <2>1. liveUntil \in [Keys -> Nat] /\ seq \in Nat
      BY Types DEF QueueInv, TypeOK
    <2>2. until \in Nat
      BY <2>1, TtlAssumption
    <2>3. ExtendTtl(until) \in Nat
      BY <2>2, ExtendTtlType DEF QueueInv
    <2>4. \E v \in {until, ExtendTtl(until)} : liveUntil' = [liveUntil EXCEPT ![k] = v]
      BY DEF SetScore
    <2> QED
      BY <2>1, <2>2, <2>3, <2>4
  <1>4. TypeOK'
    BY <1>1, <1>2, <1>3, TouchFacts DEF QueueInv, TypeOK, rewards
  <1> QED
    BY <1>1, <1>2, <1>4, TouchFacts DEF QueueInv, rewards

\* What every renewal does, whoever pays for it.
LEMMA RenewStep ==
    ASSUME QueueInv, NEW k \in Keys, Renew(k)
    PROVE  /\ seq' = seq /\ live' = live
           /\ liveUntil' \in [Keys -> Nat]
           /\ index' \in Seq(Keys) /\ Ordered(index', touch')
           /\ touch' = [touch EXCEPT ![k] = seq]
  <1>1. touch' = [touch EXCEPT ![k] = seq] /\ index' = ReindexToBack(k) /\ seq' = seq /\ live' = live
    BY DEF Renew
  <1>2. liveUntil \in [Keys -> Nat]
    BY DEF QueueInv, TypeOK
  <1>3. ExtendTtl(liveUntil[k]) \in Nat
    BY <1>2, ExtendTtlType DEF QueueInv
  <1>4. liveUntil' \in [Keys -> Nat]
    BY <1>2, <1>3 DEF Renew
  <1> QED
    BY <1>1, <1>4, ReindexKeepsOrder

LEMMA ExtendEntryTtlStep == ASSUME QueueInv, NEW k \in Keys, ExtendEntryTtl(k) PROVE QueueInv'
  <1>1. Renew(k) /\ UNCHANGED rewards
    BY DEF ExtendEntryTtl
  <1>2. TypeOK'
    BY <1>1, RenewStep, TouchFacts DEF QueueInv, TypeOK, rewards
  <1> QED
    BY <1>1, <1>2, RenewStep, TouchFacts DEF QueueInv, rewards

LEMMA KeeperStep == ASSUME QueueInv, NEW k \in Keys, KeeperExtendEntry(k) PROVE QueueInv'
  <1> DEFINE paid == Payable(params.perEntry)
  <1>1. /\ Renew(k) /\ params' = params
        /\ pool' = pool - paid /\ spent' = spent + paid
        /\ rewardedAt' = IF paid > 0 THEN [rewardedAt EXCEPT ![k] = seq] ELSE rewardedAt
    BY DEF KeeperExtendEntry
  <1>2. pool \in Nat /\ spent \in Nat /\ paid \in Nat /\ paid <= pool
    BY Types, PayableWithinPool DEF QueueInv
  <1> HIDE DEF paid
  <1>3. pool' \in Nat /\ spent' \in Nat
    BY <1>1, <1>2
  <1>4. rewardedAt \in [Keys -> 0..MaxSeq \cup {Never}] /\ seq \in 0..MaxSeq /\ seq \in Nat
    BY Types DEF QueueInv, TypeOK
  <1>5. rewardedAt' \in [Keys -> 0..MaxSeq \cup {Never}]
    BY <1>1, <1>4
  <1>6. \A x \in Keys : rewardedAt'[x] = rewardedAt[x] \/ (x = k /\ rewardedAt'[x] = seq)
    BY <1>1, <1>4
  <1>7. /\ touch' \in [Keys -> 0..MaxSeq \cup {Never}]
        /\ \A x \in Keys : touch'[x] <= seq'
        /\ \A x \in Keys : rewardedAt[x] <= touch'[x]
        /\ touch'[k] = seq
    BY <1>1, RenewStep, TouchFacts
  <1>8. \A x \in Keys : rewardedAt'[x] <= touch'[x]
    BY <1>4, <1>6, <1>7
  <1>9. TypeOK'
    BY <1>1, <1>3, <1>5, <1>7, RenewStep DEF QueueInv, TypeOK
  <1> QED
    BY <1>1, <1>7, <1>8, <1>9, RenewStep DEF QueueInv

LEMMA QueueStep == QueueInv /\ [Next]_vars => QueueInv'
  <1> SUFFICES ASSUME QueueInv, [Next]_vars PROVE QueueInv'
    OBVIOUS
  <1>1. ASSUME NEW k \in Keys, GetScore(k) PROVE QueueInv'
    <2>1. UNCHANGED <<seq, live, touch, index, rewards>>
      BY <1>1 DEF GetScore
    <2>2. liveUntil \in [Keys -> Nat]
      BY DEF QueueInv, TypeOK
    <2>3. ExtendTtl(liveUntil[k]) \in Nat
      BY <2>2, ExtendTtlType DEF QueueInv
    <2>4. liveUntil' \in [Keys -> Nat]
      BY <1>1, <2>2, <2>3 DEF GetScore
    <2> QED
      BY <2>1, <2>4 DEF QueueInv, TypeOK, rewards
  <1>2. ASSUME NEW k \in Keys, ClearScore(k) PROVE QueueInv'
    <2>1. index' = RemoveFirst(index, k) /\ live' = live \ {k} /\ UNCHANGED <<seq, liveUntil, touch, rewards>>
      BY <1>2 DEF ClearScore
    <2>2. RemoveFirst(index, k) \in Seq(Keys) /\ Ordered(RemoveFirst(index, k), touch)
      BY Types, RemoveKeepsOrder DEF QueueInv
    <2> QED
      BY <2>1, <2>2 DEF QueueInv, TypeOK, rewards
  <1>3. ASSUME NEW amount \in 1..MaxFunds, FundKeeperRewardPool(amount) PROVE QueueInv'
    <2>1. pool' = pool + amount /\ UNCHANGED <<seq, entries, params, spent, rewardedAt>>
      BY <1>3 DEF FundKeeperRewardPool
    <2>2. pool' \in Nat
      BY <2>1, Types, LimitsAssumption DEF QueueInv
    <2> QED
      BY <2>1, <2>2 DEF QueueInv, TypeOK, entries
  <1>4. ASSUME NEW rp \in Params, SetKeeperRewardParams(rp) PROVE QueueInv'
    BY <1>4, ParamsAssumption DEF SetKeeperRewardParams, QueueInv, TypeOK, entries
  <1>5. CASE NextLedger
    <2>1. seq < MaxSeq /\ seq' = seq + 1 /\ spent' = 0 /\ UNCHANGED <<entries, params, pool, rewardedAt>>
      BY <1>5 DEF NextLedger
    <2>2. seq' \in 0..MaxSeq /\ seq <= seq' /\ seq' \in Nat
      BY <2>1, Types DEF QueueInv
    <2>3. \A k \in Keys : touch'[k] <= seq'
      BY <2>1, <2>2, Types DEF QueueInv, entries
    <2> QED
      BY <2>1, <2>2, <2>3 DEF QueueInv, TypeOK, entries
  <1>6. ASSUME NEW k \in Keys, RestoreFootprint(k) PROVE QueueInv'
    <2>1. liveUntil' = [liveUntil EXCEPT ![k] = seq + MinTtl] /\ UNCHANGED <<seq, live, touch, index, rewards>>
      BY <1>6 DEF RestoreFootprint
    <2>2. liveUntil' \in [Keys -> Nat]
      BY <2>1, Types, TtlAssumption DEF QueueInv, TypeOK
    <2> QED
      BY <2>1, <2>2 DEF QueueInv, TypeOK, rewards
  <1>7. CASE UNCHANGED vars
    BY <1>7 DEF QueueInv, TypeOK, vars, entries, rewards
  <1> QED
    BY <1>1, <1>2, <1>3, <1>4, <1>5, <1>6, <1>7, SetScoreStep, ExtendEntryTtlStep, KeeperStep DEF Next

-----------------------------------------------------------------------------
(* The theorems *)

\* Every reachable state is well typed; keeper payouts never overdraw the pool.
THEOREM QueueTypeCorrect == Spec => []TypeOK
  <1>1. QueueInv => TypeOK
    BY DEF QueueInv
  <1> QED
    BY <1>1, QueueInit, QueueStep, PTL DEF Spec

\* reindex_entry_to_back keeps the queue sorted by last touch, so
\* get_expiring_entries may stop at the first entry that is not due.
THEOREM QueueStaysSorted == Spec => []QueueSorted
  <1>1. QueueInv => QueueSorted
    <2> SUFFICES ASSUME QueueInv PROVE QueueSorted
      OBVIOUS
    <2>1. DOMAIN index = 1..Len(index)
      BY Types DEF QueueInv
    <2> QED
      BY <2>1 DEF QueueInv, Ordered, QueueSorted
  <1> QED
    BY <1>1, QueueInit, QueueStep, PTL DEF Spec

\* reindex_entry_to_back never lists an entry twice, so a page of due entries
\* never renews, or rewards, an entry twice.
THEOREM QueueStaysDistinct == Spec => []QueueDistinct
  <1>1. QueueInv => QueueDistinct
    <2> SUFFICES ASSUME QueueInv PROVE QueueDistinct
      OBVIOUS
    <2>1. DOMAIN index = 1..Len(index)
      BY Types DEF QueueInv
    <2> QED
      BY <2>1 DEF QueueInv, Ordered, QueueDistinct
  <1> QED
    BY <1>1, QueueInit, QueueStep, PTL DEF Spec

\* keeper_entry_eligible measures decay from the last touch, and a paid renewal
\* is a touch: the same entry is paid for again only after the full decay.
THEOREM KeeperPaidOncePerDecay == Spec => PaidOncePerDecay
  <1>1. QueueInv /\ [Next]_vars =>
        [\A k \in Keys :
            KeeperExtendEntry(k) /\ pool' < pool /\ rewardedAt[k] # Never
            => seq - rewardedAt[k] >= Threshold - params.window]_vars
    <2> SUFFICES ASSUME QueueInv, NEW k \in Keys, KeeperExtendEntry(k)
                 PROVE  seq - rewardedAt[k] >= Threshold - params.window
      OBVIOUS
    <2>1. /\ seq \in Nat /\ touch[k] \in Int /\ rewardedAt[k] \in Int /\ params.window \in Nat
          /\ Threshold \in Nat /\ rewardedAt[k] <= touch[k]
      BY Types, TtlAssumption DEF QueueInv
    <2>2. Remaining(k) <= params.window
      BY DEF KeeperExtendEntry, Eligible
    <2>3. Threshold - (seq - touch[k]) <= params.window
      BY <2>1, <2>2 DEF Remaining, Elapsed
    <2> QED
      BY <2>1, <2>3
  <1> QED
    BY <1>1, QueueInit, QueueStep, PTL DEF Spec, PaidOncePerDecay
=============================================================================
