------------------------- MODULE GateCreditsProofs -------------------------
(***************************************************************************)
(* Proofs about GateCredits for any number of depositors, any amounts and  *)
(* any fee schedules: the fee rule, the exactness of the liability         *)
(* counter, and, when the token is changed only once neither credit nor    *)
(* revenue is outstanding, solvency.                                       *)
(***************************************************************************)
EXTENDS GateCredits, SequenceTheorems, WellFoundedInduction, TLAPS

-----------------------------------------------------------------------------
(* Extremal elements of bounded sets of naturals *)

\* A nonempty set of naturals has a least element.
LEMMA LeastNat ==
    ASSUME NEW S, S \subseteq Nat, S # {}
    PROVE  \E x \in S : \A y \in S : x <= y
  <1> DEFINE R == OpToRel(<, Nat)
  <1>1. IsWellFoundedOn(R, Nat)
    BY NatLessThanWellFounded
  <1>2. \A x, y \in Nat : x < y => <<x, y>> \in R
    BY DEF OpToRel
  <1> HIDE DEF R
  <1>3. \E x \in S : \A y \in S : ~(<<y, x>> \in R)
    BY <1>1, WFMin
  <1>4. PICK x \in S : \A y \in S : ~(<<y, x>> \in R)
    BY <1>3
  <1>5. ASSUME NEW y \in S PROVE x <= y
    <2>1. x \in Nat /\ y \in Nat
      OBVIOUS
    <2>2. ~(y < x)
      BY <1>2, <1>4, <2>1
    <2> QED
      BY <2>1, <2>2
  <1> QED
    BY <1>5

\* A nonempty set of naturals with an upper bound has a greatest element.
LEMMA GreatestNat ==
    ASSUME NEW n \in Nat, NEW S, S \subseteq 0..n, S # {}
    PROVE  Max(S) \in S /\ \A y \in S : y <= Max(S)
  <1> DEFINE T == {n - x : x \in S}
  <1>1. T \subseteq Nat /\ T # {}
    <2>1. \A x \in S : n - x \in Nat
      OBVIOUS
    <2> QED
      BY <2>1
  <1>2. PICK t \in T : \A u \in T : t <= u
    BY <1>1, LeastNat
  <1>3. PICK m \in S : t = n - m
    OBVIOUS
  <1>4. \A y \in S : m >= y
    <2> TAKE y \in S
    <2>1. n - y \in T /\ m \in 0..n /\ y \in 0..n
      OBVIOUS
    <2>2. n - m <= n - y
      BY <1>2, <1>3, <2>1
    <2> HIDE DEF T
    <2> QED
      BY <2>1, <2>2
  <1>5. \E x \in S : \A y \in S : x >= y
    BY <1>4
  <1>6. Max(S) \in S /\ \A y \in S : Max(S) >= y
    BY <1>5 DEF Max
  <1> QED
    BY <1>6

-----------------------------------------------------------------------------
(* The fee rule *)

LEMMA TierTypes ==
    ASSUME NEW s \in Seq([min_volume : Nat, fee : Int])
    PROVE  /\ DOMAIN s = 1..Len(s) /\ Len(s) \in Nat
           /\ \A i \in 1..Len(s) : s[i].min_volume \in Nat /\ s[i].fee \in Int
  <1>1. \A i \in 1..Len(s) : s[i] \in [min_volume : Nat, fee : Int]
    BY ElementOfSeq
  <1> QED
    BY <1>1

\* A function that grows from each point to the next grows throughout.
LEMMA StepwiseAscends ==
    ASSUME NEW n \in Nat, NEW f \in [1..n -> Nat], \A k \in 2..n : f[k - 1] < f[k],
           NEW i \in 1..n
    PROVE  \A j \in 1..n : i < j => f[i] < f[j]
  <1> DEFINE Bad == {k \in 1..n : i < k /\ f[k] <= f[i]}
  <1>1. ASSUME Bad # {} PROVE FALSE
    <2>1. Bad \subseteq Nat
      OBVIOUS
    <2>2. PICK k \in Bad : \A l \in Bad : k <= l
      BY <1>1, <2>1, LeastNat
    <2>3. k \in 1..n /\ i < k /\ f[k] <= f[i]
      OBVIOUS
    <2> HIDE DEF Bad
    <2>4. k - 1 \in 1..n /\ k \in 2..n /\ k - 1 \notin Bad
      <3>1. k - 1 \in 1..n /\ k \in 2..n /\ ~(k <= k - 1)
        BY <2>3
      <3> QED
        BY <2>2, <3>1
    <2>5. f[k - 1] < f[k] /\ f[k - 1] \in Nat /\ f[k] \in Nat /\ f[i] \in Nat
      BY <2>3, <2>4
    <2>6. ~(i < k - 1 /\ f[k - 1] <= f[i])
      BY <2>4 DEF Bad
    <2>7. CASE i = k - 1
      BY <2>3, <2>5, <2>7
    <2>8. CASE i < k - 1
      BY <2>3, <2>5, <2>6, <2>8
    <2> QED
      BY <2>3, <2>7, <2>8
  <1>2. ASSUME NEW j \in 1..n, i < j PROVE f[i] < f[j]
    <2>1. f[i] \in Nat /\ f[j] \in Nat /\ ~(f[j] <= f[i])
      BY <1>1, <1>2
    <2> QED
      BY <2>1
  <1> QED
    BY <1>2

\* In a schedule the contract accepts, later tiers start at higher volumes.
LEMMA TiersAscend ==
    ASSUME NEW s \in Seq([min_volume : Nat, fee : Int]), ValidSchedule(s),
           NEW i \in 1..Len(s), NEW j \in 1..Len(s), i < j
    PROVE  s[i].min_volume < s[j].min_volume
  <1> DEFINE f == [k \in 1..Len(s) |-> s[k].min_volume]
  <1>1. f \in [1..Len(s) -> Nat] /\ Len(s) \in Nat
    BY TierTypes
  <1>2. \A k \in 2..Len(s) : k - 1 \in 1..Len(s) /\ k \in 1..Len(s)
    BY <1>1
  <1>3. \A k \in 2..Len(s) : f[k - 1] < f[k]
    BY <1>2 DEF ValidSchedule
  <1> HIDE DEF f
  <1>4. f[i] < f[j]
    BY <1>1, <1>3, StepwiseAscends
  <1> QED
    BY <1>4 DEF f

\* The walk of compute_gate_fee ends at a tier of the schedule.
LEMMA FeeOfLastMet ==
    ASSUME NEW s \in Seq([min_volume : Nat, fee : Int]), NEW v \in Nat
    PROVE  /\ ComputeGateFee(s, v) \in Int
           /\ MetPrefix(s, v) # {} =>
                 /\ Max(MetPrefix(s, v)) \in MetPrefix(s, v)
                 /\ \A i \in MetPrefix(s, v) : i <= Max(MetPrefix(s, v))
  <1>1. MetPrefix(s, v) \subseteq 0..Len(s) /\ MetPrefix(s, v) \subseteq 1..Len(s)
    BY DEF MetPrefix
  <1>2. CASE MetPrefix(s, v) = {}
    BY <1>2 DEF ComputeGateFee
  <1>3. CASE MetPrefix(s, v) # {}
    <2>1. /\ Max(MetPrefix(s, v)) \in MetPrefix(s, v)
          /\ \A i \in MetPrefix(s, v) : i <= Max(MetPrefix(s, v))
      BY <1>1, <1>3, GreatestNat
    <2>2. s[Max(MetPrefix(s, v))].fee \in Int
      BY <1>1, <2>1, TierTypes
    <2> QED
      BY <1>3, <2>1, <2>2 DEF ComputeGateFee
  <1> QED
    BY <1>2, <1>3

\* For every schedule that set_fee_tier_schedule accepts and every volume,
\* compute_gate_fee charges the highest tier reached.
THEOREM FeeRule ==
    ASSUME NEW s \in Seq([min_volume : Nat, fee : Int]), ValidSchedule(s), NEW v \in Nat,
           NEW met, met = {i \in DOMAIN s : s[i].min_volume <= v}
    PROVE  /\ met = {} => ComputeGateFee(s, v) = 0
           /\ \A i \in met : (\A j \in met : s[j].min_volume <= s[i].min_volume)
                               => ComputeGateFee(s, v) = s[i].fee
  <1>1. DOMAIN s = 1..Len(s) /\ \A i \in 1..Len(s) : s[i].min_volume \in Nat
    BY TierTypes
  <1>2. MetPrefix(s, v) \subseteq met
    BY <1>1 DEF MetPrefix
  <1>3. met \subseteq MetPrefix(s, v)
    <2> SUFFICES ASSUME NEW i \in met, NEW j \in 1..i PROVE v >= s[j].min_volume
      BY <1>1 DEF MetPrefix
    <2>1. i \in 1..Len(s) /\ j \in 1..Len(s) /\ s[i].min_volume <= v
      BY <1>1
    <2>2. CASE i = j
      BY <1>1, <2>1, <2>2
    <2>3. CASE j < i
      <3>1. s[j].min_volume < s[i].min_volume
        BY <2>1, <2>3, TiersAscend
      <3> QED
        BY SMTT(40), <1>1, <2>1, <3>1
    <2> QED
      BY <2>1, <2>2, <2>3
  <1>4. met = MetPrefix(s, v)
    BY <1>2, <1>3
  <1>5. met = {} => ComputeGateFee(s, v) = 0
    BY <1>4 DEF ComputeGateFee
  <1>6. ASSUME NEW i \in met, \A j \in met : s[j].min_volume <= s[i].min_volume
        PROVE  ComputeGateFee(s, v) = s[i].fee
    <2> DEFINE m == Max(MetPrefix(s, v))
    <2>1. m \in met /\ \A j \in met : j <= m
      BY <1>4, FeeOfLastMet
    <2>2. m = i
      <3>1. i \in 1..Len(s) /\ m \in 1..Len(s) /\ i <= m /\ s[m].min_volume <= s[i].min_volume
        BY <1>1, <1>6, <2>1
      <3>2. ~(i < m)
        <4> SUFFICES ASSUME i < m PROVE FALSE
          OBVIOUS
        <4>1. s[i].min_volume < s[m].min_volume
          BY <3>1, TiersAscend
        <4> QED
          BY SMTT(40), <1>1, <3>1, <4>1
      <3> QED
        BY <3>1, <3>2
    <2> QED
      BY <1>4, <2>2 DEF ComputeGateFee
  <1> QED
    BY <1>5, <1>6

-----------------------------------------------------------------------------
(* The liability counter *)

\* P lists running totals of b.  That they grow follows from the equations by
\* induction; it is carried along, so that no induction is needed.
Sums(P, b) ==
    /\ P[0] = 0
    /\ \A d \in Depositors : P[d] = P[d - 1] + b[d]
    /\ \A i, j \in 0..N : i <= j => P[i] <= P[j]

\* c is b with the value x at d.
OneSet(b, c, d, x) == c[d] = x /\ \A e \in Depositors : e # d => c[e] = b[e]

\* One balance raised by a: every later running total is raised by a.
LEMMA RaiseSums ==
    ASSUME NEW b \in [Depositors -> Nat], NEW P \in [0..N -> Nat], Sums(P, b),
           NEW d \in Depositors, NEW a \in Nat,
           NEW c, OneSet(b, c, d, b[d] + a)
    PROVE  \E Q \in [0..N -> Nat] : Sums(Q, c) /\ Q[N] = P[N] + a
  <1> DEFINE Q == [i \in 0..N |-> IF d <= i THEN P[i] + a ELSE P[i]]
  <1>1. N \in Nat /\ d \in 1..N /\ d \in 0..N /\ N \in 0..N
    BY CreditBounds DEF Depositors
  <1>2. Q \in [0..N -> Nat]
    OBVIOUS
  <1>3. Q[N] = P[N] + a
    BY <1>1
  <1>4. Q[0] = 0
    BY <1>1 DEF Sums
  <1>5. ASSUME NEW e \in Depositors PROVE Q[e] = Q[e - 1] + c[e]
    <2>1. e \in 0..N /\ e - 1 \in 0..N /\ P[e] = P[e - 1] + b[e] /\ b[e] \in Nat /\ P[e - 1] \in Nat
      BY SMTT(40), <1>1, <1>5 DEF Depositors, Sums
    <2>2. CASE e = d
      BY <1>1, <2>1, <2>2 DEF OneSet
    <2>3. CASE e # d
      <3>1. c[e] = b[e]
        BY <2>3 DEF OneSet
      <3>2. d <= e <=> d <= e - 1
        BY <1>1, <2>1, <2>3
      <3> QED
        BY <2>1, <3>1, <3>2
    <2> QED
      BY <2>2, <2>3
  <1>6. ASSUME NEW i \in 0..N, NEW j \in 0..N, i <= j PROVE Q[i] <= Q[j]
    <2>1. P[i] <= P[j] /\ P[i] \in Nat /\ P[j] \in Nat
      BY <1>6 DEF Sums
    <2> QED
      BY <1>1, <1>6, <2>1
  <1>7. Sums(Q, c)
    BY <1>4, <1>5, <1>6 DEF Sums
  <1> QED
    BY <1>2, <1>3, <1>7

\* One balance lowered by a: the total is at least a, and is lowered by a.
LEMMA LowerSums ==
    ASSUME NEW b \in [Depositors -> Nat], NEW P \in [0..N -> Nat], Sums(P, b),
           NEW d \in Depositors, NEW a \in Nat, a <= b[d],
           NEW c, OneSet(b, c, d, b[d] - a)
    PROVE  /\ P[N] >= a
           /\ \E Q \in [0..N -> Nat] : Sums(Q, c) /\ Q[N] = P[N] - a
  <1> DEFINE Q == [i \in 0..N |-> IF d <= i THEN P[i] - a ELSE P[i]]
  <1>1. N \in Nat /\ d \in 1..N /\ d \in 0..N /\ d - 1 \in 0..N /\ N \in 0..N
    BY CreditBounds DEF Depositors
  <1>2. P[d] = P[d - 1] + b[d] /\ P[d] \in Nat /\ P[d - 1] \in Nat /\ b[d] \in Nat
    BY <1>1 DEF Sums
  <1>3. \A i \in 0..N : d <= i => P[i] \in Nat /\ P[d] <= P[i] /\ P[i] - a \in Nat
    <2> SUFFICES ASSUME NEW i \in 0..N, d <= i
                 PROVE  P[i] \in Nat /\ P[d] <= P[i] /\ P[i] - a \in Nat
      OBVIOUS
    <2>1. P[i] \in Nat /\ P[d] <= P[i]
      BY <1>1 DEF Sums
    <2> QED
      BY <1>2, <2>1
  <1>4. Q \in [0..N -> Nat]
    BY <1>3
  <1>5. P[N] >= a /\ Q[N] = P[N] - a
    BY SMTT(40), <1>1, <1>2, <1>3
  <1>6. Q[0] = 0
    BY <1>1 DEF Sums
  <1>7. ASSUME NEW e \in Depositors PROVE Q[e] = Q[e - 1] + c[e]
    <2>1. e \in 0..N /\ e - 1 \in 0..N /\ P[e] = P[e - 1] + b[e] /\ b[e] \in Nat /\ P[e - 1] \in Nat
      BY SMTT(40), <1>1, <1>7 DEF Depositors, Sums
    <2>2. CASE e = d
      BY <1>1, <2>1, <2>2 DEF OneSet
    <2>3. CASE e # d
      <3>1. c[e] = b[e]
        BY <2>3 DEF OneSet
      <3>2. d <= e <=> d <= e - 1
        BY <1>1, <2>1, <2>3
      <3> QED
        BY <2>1, <3>1, <3>2
    <2> QED
      BY <2>2, <2>3
  <1>8. ASSUME NEW i \in 0..N, NEW j \in 0..N, i <= j PROVE Q[i] <= Q[j]
    <2>1. P[i] <= P[j] /\ P[i] \in Nat /\ P[j] \in Nat
      BY <1>8 DEF Sums
    <2>2. CASE d <= i \/ j < d
      BY <1>1, <1>8, <2>1, <2>2
    <2>3. CASE i < d /\ d <= j
      <3>1. P[i] <= P[d - 1]
        BY <1>1, <2>3 DEF Sums
      <3>2. P[d] <= P[j] /\ Q[i] = P[i] /\ Q[j] = P[j] - a
        BY <1>1, <1>3, <2>3
      <3> QED
        BY <1>2, <2>1, <3>1, <3>2
    <2> QED
      BY <1>1, <2>2, <2>3
  <1>9. Sums(Q, c)
    BY <1>6, <1>7, <1>8 DEF Sums
  <1> QED
    BY <1>4, <1>5, <1>9

Totals == \E P \in [0..N -> Nat] : Sums(P, balance) /\ P[N] = liability

\* Inductive: the subtraction of sub_gate_credit_liability is exact because the
\* counter is the sum, and the counter stays the sum because it is exact.
CreditInv == TypeOK /\ Totals

LEMMA DebitFacts ==
    ASSUME CreditInv, NEW d \in Depositors, NEW a \in Nat, Debit(d, a)
    PROVE  /\ balance' \in [Depositors -> Nat]
           /\ liability >= a /\ liability' = liability - a /\ liability' \in Nat
           /\ Totals'
  <1>1. balance \in [Depositors -> Nat] /\ liability \in Nat /\ balance[d] \in Nat /\ a <= balance[d]
    BY DEF CreditInv, TypeOK, Debit
  <1>2. /\ balance' = [balance EXCEPT ![d] = @ - a]
        /\ OneSet(balance, balance', d, balance[d] - a)
    BY <1>1 DEF Debit, OneSet
  <1>3. PICK P \in [0..N -> Nat] : Sums(P, balance) /\ P[N] = liability
    BY DEF CreditInv, Totals
  <1>a. P[N] >= a /\ \E Q \in [0..N -> Nat] : Sums(Q, balance') /\ Q[N] = P[N] - a
    <2> DEFINE b == balance
               c == balance'
    <2>1. /\ b \in [Depositors -> Nat] /\ Sums(P, b) /\ a <= b[d]
          /\ OneSet(b, c, d, b[d] - a)
      BY <1>1, <1>2, <1>3
    <2> HIDE DEF b, c
    <2>2. P[N] >= a /\ \E Q \in [0..N -> Nat] : Sums(Q, c) /\ Q[N] = P[N] - a
      BY <2>1, LowerSums
    <2> QED
      BY <2>2 DEF c
  <1>4. liability >= a /\ liability' = liability - a
    BY <1>1, <1>3, <1>a DEF Debit
  <1>5. PICK Q \in [0..N -> Nat] : Sums(Q, balance') /\ Q[N] = P[N] - a
    BY <1>a
  <1>6. Sums(Q, balance') /\ Q[N] = liability'
    BY <1>3, <1>4, <1>5
  <1>7. Totals'
    BY <1>6 DEF Totals
  <1> QED
    BY <1>1, <1>2, <1>4, <1>7

LEMMA CreditInit == Init => CreditInv
  <1> SUFFICES ASSUME Init PROVE CreditInv
    OBVIOUS
  <1>1. N \in Nat /\ MaxTime \in Nat
    BY CreditBounds
  <1>2. tiers \in Seq([min_volume : Nat, fee : Int])
    BY DEF Init
  <1>3. TypeOK
    BY <1>1, <1>2, CreditBounds DEF Init, TypeOK, Requests, NoRequest
  <1>4. Totals
    <2> DEFINE P == [i \in 0..N |-> 0]
    <2>1. P \in [0..N -> Nat] /\ P[N] = 0 /\ P[0] = 0
      BY <1>1
    <2>2. \A d \in Depositors : P[d] = 0 /\ P[d - 1] = 0 /\ balance[d] = 0
      BY <1>1 DEF Init, Depositors
    <2>3. \A i, j \in 0..N : i <= j => P[i] <= P[j]
      OBVIOUS
    <2>4. Sums(P, balance)
      <3> HIDE DEF P
      <3>1. \A d \in Depositors : P[d] = P[d - 1] + balance[d]
        BY <2>2
      <3> QED
        BY <2>1, <2>3, <3>1 DEF Sums
    <2> QED
      BY <2>1, <2>4 DEF Totals, Init
  <1> QED
    BY <1>3, <1>4 DEF CreditInv

\* A step that leaves balances and counter alone keeps the totals.
LEMMA TotalsKept == ASSUME Totals, UNCHANGED <<balance, liability>> PROVE Totals'
  BY DEF Totals

\* A transfer leaves the contract's account in every token a natural number.
LEMMA HeldMoves ==
    ASSUME CreditInv, NEW a \in Nat
    PROVE  Receive(a) \/ Pay(a) => held' \in [Tokens -> Nat]
  <1>1. held \in [Tokens -> Nat] /\ token \in Tokens \cup {NoToken}
    BY DEF CreditInv, TypeOK
  <1>2. CASE Receive(a)
    <2>1. token \in Tokens /\ held[token] + a \in Nat /\ held' = [held EXCEPT ![token] = held[token] + a]
      BY <1>1, <1>2 DEF Receive
    <2> QED
      BY <1>1, <2>1
  <1>3. CASE Pay(a)
    <2>1. token \in Tokens /\ held[token] - a \in Nat /\ held' = [held EXCEPT ![token] = held[token] - a]
      BY <1>1, <1>3 DEF Pay
    <2> QED
      BY <1>1, <2>1
  <1> QED
    BY <1>2, <1>3

LEMMA DepositKeeps ==
    ASSUME CreditInv, NEW d \in Depositors, NEW a \in Amounts, DepositGateCredits(d, a)
    PROVE  CreditInv'
  <1>1. a \in Nat /\ N \in Nat
    BY AmountsPositive, CreditBounds
  <1>2. balance \in [Depositors -> Nat] /\ liability \in Nat /\ held \in [Tokens -> Nat]
    BY DEF CreditInv, TypeOK
  <1>3. /\ balance' = [balance EXCEPT ![d] = @ + a] /\ liability' = liability + a
        /\ OneSet(balance, balance', d, balance[d] + a)
    BY <1>2 DEF DepositGateCredits, OneSet
  <1>4. PICK P \in [0..N -> Nat] : Sums(P, balance) /\ P[N] = liability
    BY DEF CreditInv, Totals
  <1>5. PICK Q \in [0..N -> Nat] : Sums(Q, balance') /\ Q[N] = P[N] + a
    <2> DEFINE b == balance
               c == balance'
    <2>1. b \in [Depositors -> Nat] /\ Sums(P, b) /\ OneSet(b, c, d, b[d] + a)
      BY <1>2, <1>3, <1>4
    <2> HIDE DEF b, c
    <2>2. \E Q \in [0..N -> Nat] : Sums(Q, c) /\ Q[N] = P[N] + a
      BY <1>1, <2>1, RaiseSums
    <2> QED
      BY <2>2 DEF c
  <1>6. Sums(Q, balance') /\ Q[N] = liability'
    BY <1>3, <1>4, <1>5
  <1>7. Totals'
    BY <1>6 DEF Totals
  <1>8. balance' \in [Depositors -> Nat] /\ liability' \in Nat
    BY <1>1, <1>2, <1>3
  <1>9. held' \in [Tokens -> Nat]
    BY <1>1, <1>2, HeldMoves DEF DepositGateCredits
  <1>10. /\ UNCHANGED <<now, token, revenue, request, delay, tiers, window, volume, exempt>>
    BY DEF DepositGateCredits, pricing
  <1>11. TypeOK'
    BY <1>1, <1>8, <1>9, <1>10 DEF CreditInv, TypeOK
  <1> QED
    BY <1>7, <1>11 DEF CreditInv

LEMMA WithdrawKeeps ==
    ASSUME CreditInv, NEW d \in Depositors, WithdrawGateCredits(d)
    PROVE  CreditInv'
  <1>1. request[d].amount \in Nat /\ held \in [Tokens -> Nat] /\ N \in Nat
    BY CreditBounds DEF CreditInv, TypeOK, Requests
  <1>2. balance' \in [Depositors -> Nat] /\ liability' \in Nat /\ Totals'
    BY <1>1, DebitFacts DEF WithdrawGateCredits
  <1>3. held' \in [Tokens -> Nat]
    BY <1>1, HeldMoves DEF WithdrawGateCredits
  <1>4. request' \in [Depositors -> Requests]
    BY DEF CreditInv, TypeOK, WithdrawGateCredits, Requests, NoRequest
  <1>5. TypeOK'
    BY <1>1, <1>2, <1>3, <1>4 DEF CreditInv, TypeOK, WithdrawGateCredits, pricing
  <1> QED
    BY <1>2, <1>5 DEF CreditInv

\* What a metered query charges, and its effect on the accounts.
LEMMA QueryFacts ==
    ASSUME CreditInv, NEW d \in Depositors, QueryRiskGateMetered(d)
    PROVE  /\ CreditInv'
           /\ liability' + revenue' = liability + revenue
  <1> DEFINE w == CurrentWindow(d)
             fee == IF exempt[d] > now THEN 0 ELSE ComputeGateFee(tiers, w.count)
  <1>1. now \in Nat /\ N \in Nat /\ liability \in Nat /\ revenue \in Nat /\ MaxVolume \in Nat
        /\ tiers \in Seq([min_volume : Nat, fee : Int]) /\ window \in Nat
        /\ balance \in [Depositors -> Nat] /\ volume \in [Depositors -> VolumeWindows \cup {NoWindow}]
    BY CreditBounds, WindowsNat DEF CreditInv, TypeOK
  <1>2. w \in VolumeWindows
    <2>1. [start |-> now, count |-> 0] \in VolumeWindows
      BY <1>1 DEF VolumeWindows
    <2>2. volume[d] # NoWindow => volume[d] \in VolumeWindows
      BY <1>1
    <2> QED
      BY <2>1, <2>2 DEF CurrentWindow
  <1>3. Advanced(w) \in VolumeWindows
    <2> HIDE DEF w
    <2>1. w.start \in Nat /\ w.count \in 0..MaxVolume /\ w = [start |-> w.start, count |-> w.count]
      BY <1>2 DEF VolumeWindows
    <2>2. (IF w.count < MaxVolume THEN w.count + 1 ELSE w.count) \in 0..MaxVolume
      BY <1>1, <2>1
    <2>3. Advanced(w) = [start |-> w.start, count |-> IF w.count < MaxVolume THEN w.count + 1 ELSE w.count]
      BY <2>1 DEF Advanced
    <2> QED
      BY <2>1, <2>2, <2>3 DEF VolumeWindows
  <1>4. w.count \in Nat
    BY <1>1, <1>2 DEF VolumeWindows
  <1>5. fee \in Int
    BY <1>1, <1>4, FeeOfLastMet
  <1>6. volume' \in [Depositors -> VolumeWindows \cup {NoWindow}]
    BY <1>1, <1>3 DEF QueryRiskGateMetered
  <1>7. /\ balance' \in [Depositors -> Nat] /\ liability' \in Nat /\ revenue' \in Nat
        /\ liability' + revenue' = liability + revenue /\ Totals'
    <2>1. CASE fee > 0
      <3>1. fee \in Nat /\ Debit(d, fee) /\ revenue' = revenue + fee
        BY <1>5, <2>1 DEF QueryRiskGateMetered
      <3> HIDE DEF fee
      <3>2. balance' \in [Depositors -> Nat] /\ liability' = liability - fee /\ liability' \in Nat /\ Totals'
        BY <3>1, DebitFacts
      <3> QED
        BY <1>1, <3>1, <3>2
    <2>2. CASE ~(fee > 0)
      <3>1. UNCHANGED <<balance, liability, revenue>>
        BY <2>2 DEF QueryRiskGateMetered
      <3>2. Totals'
        BY <3>1, TotalsKept DEF CreditInv
      <3> QED
        BY <1>1, <3>1, <3>2
    <2> QED
      BY <2>1, <2>2
  <1>8. /\ UNCHANGED <<now, token, held, request, delay, tiers, window, exempt>>
    BY DEF QueryRiskGateMetered
  <1>9. TypeOK'
    BY <1>1, <1>6, <1>7, <1>8 DEF CreditInv, TypeOK
  <1> QED
    BY <1>7, <1>9 DEF CreditInv

\* Every step keeps the types and the totals.
LEMMA CreditStep == ASSUME CreditInv, [Next]_vars PROVE CreditInv'
  <1>1. N \in Nat /\ MaxTime \in Nat
    BY CreditBounds
  <1>2. TypeOK /\ Totals
    BY DEF CreditInv
  <1>3. CASE UNCHANGED <<token, held, balance, liability, revenue>> /\ TypeOK'
    BY <1>2, <1>3, TotalsKept DEF CreditInv
  <1>4. ASSUME NEW d \in Depositors, NEW a \in Amounts, WithdrawGateCreditsRequest(d, a) PROVE CreditInv'
    <2>1. a \in Nat /\ now + delay \in Nat
      BY <1>1, <1>2, AmountsPositive DEF TypeOK
    <2>2. [amount |-> a, unlock_at |-> now + delay] \in Requests
      BY <2>1 DEF Requests
    <2>3. request' \in [Depositors -> Requests]
      BY <1>2, <1>4, <2>2 DEF WithdrawGateCreditsRequest, TypeOK
    <2>4. /\ UNCHANGED <<now, token, held, balance, liability, revenue, delay, tiers, window, volume, exempt>>
      BY <1>4 DEF WithdrawGateCreditsRequest, funds, pricing
    <2> QED
      BY <1>1, <1>2, <1>3, <2>3, <2>4 DEF TypeOK
  <1>6. ASSUME NEW t \in Tokens, SetGateCreditToken(t) PROVE CreditInv'
    <2>1. /\ UNCHANGED <<now, held, balance, liability, revenue, request, delay, tiers, window, volume, exempt>>
          /\ token' \in Tokens \cup {NoToken}
      BY <1>6 DEF SetGateCreditToken, pricing
    <2>2. TypeOK'
      BY <1>1, <1>2, <2>1 DEF TypeOK
    <2> QED
      BY <1>2, <2>1, <2>2, TotalsKept DEF CreditInv
  <1>7. ASSUME NEW s \in Delays, SetWithdrawalDelay(s) PROVE CreditInv'
    <2>1. /\ UNCHANGED <<now, token, held, balance, liability, revenue, request, tiers, window, volume, exempt>>
          /\ delay' \in Nat
      BY <1>7, DelaysNat DEF SetWithdrawalDelay, funds, pricing
    <2> QED
      BY <1>1, <1>2, <1>3, <2>1 DEF TypeOK
  <1>8. ASSUME NEW a \in Amounts, WithdrawGateCreditRevenue(a) PROVE CreditInv'
    <2>1. a \in Nat /\ revenue \in Nat /\ Pay(a)
      BY <1>2, <1>8, AmountsPositive DEF TypeOK, WithdrawGateCreditRevenue
    <2>2. held' \in [Tokens -> Nat]
      BY <2>1, HeldMoves
    <2>3. revenue' \in Nat
      BY <1>8, <2>1 DEF WithdrawGateCreditRevenue
    <2>4. /\ UNCHANGED <<now, token, balance, liability, request, delay, tiers, window, volume, exempt>>
      BY <1>8 DEF WithdrawGateCreditRevenue, pricing
    <2>5. TypeOK'
      BY <1>1, <1>2, <2>2, <2>3, <2>4 DEF TypeOK
    <2> QED
      BY <1>2, <2>4, <2>5, TotalsKept DEF CreditInv
  <1>9. ASSUME NEW s \in Schedules, SetFeeTierSchedule(s) PROVE CreditInv'
    <2>1. /\ UNCHANGED <<now, token, held, balance, liability, revenue, request, delay, window, volume, exempt>>
          /\ tiers' \in Seq([min_volume : Nat, fee : Int])
      BY <1>9, SchedulesTyped DEF SetFeeTierSchedule, funds
    <2> QED
      BY <1>1, <1>2, <1>3, <2>1 DEF TypeOK
  <1>10. ASSUME NEW w \in Windows, SetFeeTierWindow(w) PROVE CreditInv'
    <2>1. /\ UNCHANGED <<now, token, held, balance, liability, revenue, request, delay, tiers, volume, exempt>>
          /\ window' \in Windows
      BY <1>10 DEF SetFeeTierWindow, funds
    <2> QED
      BY <1>1, <1>2, <1>3, <2>1 DEF TypeOK
  <1>11. ASSUME NEW d \in Depositors, NEW e \in 0..MaxTime, exempt' = [exempt EXCEPT ![d] = e],
                UNCHANGED <<now, funds, request, delay, tiers, window, volume>>
         PROVE  CreditInv'
    <2>1. exempt' \in [Depositors -> 0..MaxTime]
      BY <1>2, <1>11 DEF TypeOK
    <2>2. UNCHANGED <<now, token, held, balance, liability, revenue, request, delay, tiers, window, volume>>
      BY <1>11 DEF funds
    <2> QED
      BY <1>1, <1>2, <1>3, <1>11, <2>1, <2>2 DEF TypeOK
  <1>12. CASE NextLedger
    <2>1. /\ UNCHANGED <<token, held, balance, liability, revenue, request, delay, tiers, window, volume, exempt>>
          /\ now' \in 0..MaxTime
      BY <1>1, <1>2, <1>12 DEF NextLedger, funds, pricing, TypeOK
    <2> QED
      BY <1>1, <1>2, <1>3, <2>1 DEF TypeOK
  <1>13. CASE UNCHANGED vars
    BY <1>2, <1>3, <1>13 DEF vars, funds, pricing, TypeOK
  <1>14. ASSUME NEW d \in Depositors, NEW e \in 1..MaxTime, SetFeeExemption(d, e) PROVE CreditInv'
    <2>1. e \in 0..MaxTime
      BY <1>1
    <2> QED
      BY <1>11, <1>14, <2>1 DEF SetFeeExemption
  <1>15. ASSUME NEW d \in Depositors, ClearFeeExemption(d) PROVE CreditInv'
    <2>1. 0 \in 0..MaxTime
      BY <1>1
    <2> QED
      BY <1>11, <1>15, <2>1 DEF ClearFeeExemption
  <1> QED
    BY <1>4, <1>6, <1>7, <1>8, <1>9, <1>10, <1>12, <1>13, <1>14, <1>15,
       DepositKeeps, WithdrawKeeps, QueryFacts DEF Next

LEMMA CreditAlways == Spec => []CreditInv
  BY CreditInit, CreditStep, PTL DEF Spec

\* For any constants, no balance, counter or token account of the gate-credit
\* ledger goes negative, and every variable keeps its type.
THEOREM CreditTypeCorrect == Spec => []TypeOK
  <1>1. CreditInv => TypeOK
    BY DEF CreditInv
  <1> QED
    BY <1>1, CreditAlways, PTL

\* For any number of depositors, the liability counter is the exact sum of the
\* balances: the clamp in sub_gate_credit_liability never acts.
THEOREM LiabilityIsExact == Spec => []LiabilityIsSum
  <1>1. CreditInv => LiabilityIsSum
    <2> SUFFICES ASSUME CreditInv PROVE LiabilityIsSum
      OBVIOUS
    <2>1. PICK P \in [0..N -> Nat] : Sums(P, balance) /\ P[N] = liability
      BY DEF CreditInv, Totals
    <2>2. N \in Nat /\ N \in 0..N /\ liability \in Nat
      BY CreditBounds DEF CreditInv, TypeOK
    <2>3. \A i \in 0..N : P[i] \in Nat /\ P[i] <= liability
      BY <2>1, <2>2 DEF Sums
    <2>4. P \in [0..N -> 0..liability]
      BY <2>2, <2>3
    <2>5. RunningTotals(P)
      BY <2>1 DEF Sums, RunningTotals
    <2> QED
      BY <2>1, <2>4, <2>5 DEF LiabilityIsSum
  <1> QED
    BY <1>1, CreditAlways, PTL

-----------------------------------------------------------------------------
(* Solvency *)

\* The account covers credit and revenue; nothing is owed before a token is
\* configured; a recorded request is for a positive amount.
Covered ==
    /\ token # NoToken => held[token] >= liability + revenue
    /\ token = NoToken => liability + revenue = 0
    /\ \A d \in Depositors : request[d] # NoRequest => request[d].amount > 0

\* Steps that touch neither funds nor requests.
LEMMA CoveredKept == ASSUME Covered, UNCHANGED <<token, held, liability, revenue, request>> PROVE Covered'
  BY DEF Covered

LEMMA CoveredInit == Init => Covered
  BY NoTokenAssumption DEF Init, Covered

LEMMA CoveredStep ==
    ASSUME TokenRule = "all", CreditInv, Covered, [Next]_vars
    PROVE  Covered'
  <1>1. /\ liability \in Nat /\ revenue \in Nat /\ held \in [Tokens -> Nat]
        /\ token \in Tokens \cup {NoToken} /\ request \in [Depositors -> Requests]
    BY DEF CreditInv, TypeOK
  <1>2. token # NoToken => token \in Tokens /\ held[token] \in Nat
    BY <1>1
  <1>3. ASSUME NEW d \in Depositors, NEW a \in Amounts, DepositGateCredits(d, a) PROVE Covered'
    <2>1. a \in Nat
      BY AmountsPositive
    <2>2. token # NoToken /\ token' = token /\ request' = request /\ revenue' = revenue /\ liability' = liability + a
          /\ held' = [held EXCEPT ![token] = @ + a]
      BY <1>3 DEF DepositGateCredits, Receive
    <2>3. held'[token'] = held[token] + a
      BY <1>1, <1>2, <2>2
    <2> QED
      BY <1>1, <1>2, <2>1, <2>2, <2>3 DEF Covered
  <1>4. ASSUME NEW d \in Depositors, NEW a \in Amounts, WithdrawGateCreditsRequest(d, a) PROVE Covered'
    <2>1. a \in Nat /\ a > 0
      BY AmountsPositive
    <2>2. /\ UNCHANGED <<token, held, liability, revenue>>
          /\ request' = [request EXCEPT ![d] = [amount |-> a, unlock_at |-> now + delay]]
      BY <1>4 DEF WithdrawGateCreditsRequest, funds
    <2>3. \A e \in Depositors : request'[e] # NoRequest => request'[e].amount > 0
      BY <1>1, <2>1, <2>2 DEF Covered
    <2> QED
      BY <2>2, <2>3 DEF Covered
  <1>5. ASSUME NEW d \in Depositors, WithdrawGateCredits(d) PROVE Covered'
    <2> DEFINE a == request[d].amount
    <2>1. a \in Nat
      BY <1>1 DEF Requests
    <2>2. liability' = liability - a /\ liability >= a
      BY <1>5, <2>1, DebitFacts DEF WithdrawGateCredits
    <2>3. token # NoToken /\ held' = [held EXCEPT ![token] = @ - a]
          /\ token' = token /\ revenue' = revenue /\ request' = [request EXCEPT ![d] = NoRequest]
      BY <1>5 DEF WithdrawGateCredits, Pay
    <2>4. held'[token'] = held[token] - a
      BY <1>1, <1>2, <2>3
    <2>5. \A e \in Depositors : request'[e] # NoRequest => request'[e].amount > 0
      BY <1>1, <2>3 DEF Covered
    <2> HIDE DEF a
    <2> QED
      BY <1>1, <1>2, <2>1, <2>2, <2>3, <2>4, <2>5 DEF Covered
  <1>6. ASSUME NEW d \in Depositors, QueryRiskGateMetered(d) PROVE Covered'
    <2>1. liability' + revenue' = liability + revenue /\ liability' \in Nat /\ revenue' \in Nat
      BY <1>6, QueryFacts DEF CreditInv, TypeOK
    <2>2. UNCHANGED <<token, held, request>>
      BY <1>6 DEF QueryRiskGateMetered
    <2>3. token' # NoToken => held'[token'] >= liability' + revenue'
      BY <2>1, <2>2 DEF Covered
    <2>4. token' = NoToken => liability' + revenue' = 0
      BY <2>1, <2>2 DEF Covered
    <2> QED
      BY <2>2, <2>3, <2>4 DEF Covered
  <1>7. ASSUME NEW t \in Tokens, SetGateCreditToken(t) PROVE Covered'
    <2>1. liability = 0 /\ revenue = 0
      BY <1>7 DEF SetGateCreditToken, MayChangeToken
    <2>2. token' = t /\ UNCHANGED <<held, liability, revenue, request>>
      BY <1>7 DEF SetGateCreditToken
    <2>3. held[t] \in Nat
      BY <1>1
    <2> QED
      BY <2>1, <2>2, <2>3 DEF Covered
  <1>8. ASSUME NEW a \in Amounts, WithdrawGateCreditRevenue(a) PROVE Covered'
    <2>1. a \in Nat
      BY AmountsPositive
    <2>2. token # NoToken /\ token' = token /\ request' = request /\ liability' = liability
          /\ revenue' = revenue - a /\ held' = [held EXCEPT ![token] = @ - a]
      BY <1>8 DEF WithdrawGateCreditRevenue, Pay
    <2>3. held'[token'] = held[token] - a
      BY <1>1, <1>2, <2>2
    <2> QED
      BY <1>1, <1>2, <2>1, <2>2, <2>3 DEF Covered
  <1>9. CASE UNCHANGED <<token, held, liability, revenue, request>>
    BY <1>9, CoveredKept
  <1> QED
    BY <1>3, <1>4, <1>5, <1>6, <1>7, <1>8, <1>9
       DEF Next, SetWithdrawalDelay, SetFeeTierSchedule, SetFeeTierWindow,
           SetFeeExemption, ClearFeeExemption, NextLedger, funds, vars

LEMMA CoveredAlways == ASSUME TokenRule = "all" PROVE Spec => [](CreditInv /\ Covered)
  <1>1. CreditInv /\ Covered /\ [Next]_vars => CreditInv' /\ Covered'
    BY CreditStep, CoveredStep
  <1> QED
    BY <1>1, CreditInit, CoveredInit, PTL DEF Spec

\* When the token is changed only while neither credit nor revenue is
\* outstanding, the contract can always pay everyone: for any depositors,
\* amounts, fee schedules and exemptions.
THEOREM AlwaysSolvent == ASSUME TokenRule = "all" PROVE Spec => []Solvent
  <1>1. CreditInv /\ Covered => Solvent
    BY DEF Covered, Solvent
  <1> QED
    BY <1>1, CoveredAlways, PTL

\* Under the same rule, no call of governance or of another depositor can make
\* the token transfer of an unlocked, covered withdrawal fail.
THEOREM WithdrawalNeverFails == ASSUME TokenRule = "all" PROVE Spec => []UnlockedIsPayable
  <1>1. CreditInv /\ Covered => UnlockedIsPayable
    <2> SUFFICES ASSUME CreditInv, Covered, NEW d \in Depositors, Unlocked(d), request[d].amount <= balance[d]
                 PROVE  token # NoToken /\ held[token] >= request[d].amount
      BY DEF UnlockedIsPayable
    <2>1. /\ liability \in Nat /\ revenue \in Nat /\ balance \in [Depositors -> Nat] /\ balance[d] \in Nat
          /\ request[d].amount \in Nat /\ request[d].amount > 0
      BY DEF CreditInv, TypeOK, Covered, Unlocked, Requests
    <2>2. PICK P \in [0..N -> Nat] : Sums(P, balance) /\ P[N] = liability
      BY DEF CreditInv, Totals
    <2>3. N \in Nat /\ d \in 0..N /\ d - 1 \in 0..N /\ N \in 0..N /\ d <= N
      BY CreditBounds DEF Depositors
    <2>4. P[d] = P[d - 1] + balance[d] /\ P[d] <= P[N] /\ P[d - 1] \in Nat
      BY <2>2, <2>3 DEF Sums
    <2>5. liability >= request[d].amount
      BY <2>1, <2>2, <2>4
    <2>6. token # NoToken
      BY <2>1, <2>5 DEF Covered
    <2>7. held[token] >= liability + revenue /\ held[token] \in Nat
      BY <2>6 DEF Covered, CreditInv, TypeOK
    <2> QED
      BY <2>1, <2>5, <2>6, <2>7
  <1> QED
    BY <1>1, CoveredAlways, PTL

-----------------------------------------------------------------------------
(* Pricing *)

\* Whatever governance sets, every metered query is priced at the highest tier
\* its volume reaches.
THEOREM FeesFollowSchedule == Spec => []FeeIsHighestTierMet
  <1>1. Init => ValidSchedule(tiers)
    BY CreditBounds DEF Init, ValidSchedule
  <1>2. ValidSchedule(tiers) /\ [Next]_vars => ValidSchedule(tiers)'
    <2> SUFFICES ASSUME ValidSchedule(tiers), [Next]_vars PROVE ValidSchedule(tiers')
      BY DEF ValidSchedule
    <2>1. ASSUME NEW s \in Schedules, SetFeeTierSchedule(s) PROVE ValidSchedule(tiers')
      BY <2>1 DEF SetFeeTierSchedule
    <2>2. CASE tiers' = tiers
      BY <2>2
    <2> QED
      BY <2>1, <2>2
         DEF Next, DepositGateCredits, WithdrawGateCreditsRequest, WithdrawGateCredits,
             QueryRiskGateMetered, SetGateCreditToken, SetWithdrawalDelay, WithdrawGateCreditRevenue,
             SetFeeTierWindow, SetFeeExemption, ClearFeeExemption, NextLedger, pricing, vars
  <1>3. TypeOK /\ ValidSchedule(tiers) => FeeIsHighestTierMet
    <2> SUFFICES ASSUME TypeOK, ValidSchedule(tiers), NEW v \in 0..MaxVolume
                 PROVE  LET met == {i \in DOMAIN tiers : tiers[i].min_volume <= v}
                        IN  /\ met = {} => ComputeGateFee(tiers, v) = 0
                            /\ \A i \in met : (\A j \in met : tiers[j].min_volume <= tiers[i].min_volume)
                                                => ComputeGateFee(tiers, v) = tiers[i].fee
      BY Zenon DEF FeeIsHighestTierMet
    <2> DEFINE s == tiers
               met == {i \in DOMAIN s : s[i].min_volume <= v}
    <2>1. v \in Nat /\ s \in Seq([min_volume : Nat, fee : Int])
      BY CreditBounds DEF TypeOK
    <2>2. /\ met = {} => ComputeGateFee(s, v) = 0
          /\ \A i \in met : (\A j \in met : s[j].min_volume <= s[i].min_volume)
                              => ComputeGateFee(s, v) = s[i].fee
      <3>1. ValidSchedule(s)
        OBVIOUS
      <3> HIDE DEF s
      <3>2. met = {i \in DOMAIN s : s[i].min_volume <= v}
        OBVIOUS
      <3> HIDE DEF met
      <3> QED
        BY ZenonT(40), <2>1, <3>1, <3>2, FeeRule
    <2> QED
      BY <2>2
  <1> QED
    BY <1>1, <1>2, <1>3, CreditTypeCorrect, PTL DEF Spec
=============================================================================
