---------------------------- MODULE GateCredits ----------------------------
(***************************************************************************)
(* Prepaid gate-query credits and the tiered fee schedule that spends      *)
(* them.  Depositors hold a credit balance; a metered gate query moves its *)
(* fee from the depositors' liability to governance revenue without moving *)
(* tokens; tokens move only on deposit and on the two withdrawals, always  *)
(* in the token that is configured at that moment.                         *)
(*                                                                         *)
(* One tick of now stands for one ledger: it advances the timestamp that   *)
(* unlocks requests and ends exemptions, and the sequence number that the  *)
(* volume windows count in.  held is the part of the contract's token      *)
(* accounts that comes from these entry points.                            *)
(***************************************************************************)
EXTENDS Integers, Sequences, FiniteSetsExt

CONSTANTS
    N,          \* number of depositors, who are 1..N
    Tokens,     \* token contracts governance may configure
    NoToken,    \* stands for an unset GateCreditToken
    Amounts,    \* positive amounts of deposits and withdrawals
    Schedules,  \* sequences of fee tiers governance may try to set
    MaxFee,     \* MAX_GATE_FEE_TIER
    MaxTiers,   \* MAX_FEE_TIERS
    Delays,     \* withdrawal delays governance may set
    Windows,    \* volume windows governance may set
    TokenRule,  \* what operators wait for before they change the token
    MaxVolume,  \* where the call counter saturates (u32::MAX)
    MaxHeld,    \* bound on outstanding credit and revenue
    MaxTime     \* bound on the clock

ASSUME CreditBounds == /\ N \in Nat /\ MaxFee \in Nat /\ MaxTiers \in Nat
                       /\ MaxVolume \in Nat /\ MaxHeld \in Nat /\ MaxTime \in Nat
ASSUME NoTokenAssumption == NoToken \notin Tokens
ASSUME AmountsPositive == Amounts \subseteq Nat \ {0}
ASSUME DelaysNat == Delays \subseteq Nat
ASSUME WindowsNat == 0 \notin Windows /\ Windows \subseteq Nat
ASSUME SchedulesTyped == Schedules \subseteq Seq([min_volume : Nat, fee : Int])
ASSUME RuleKnown == TokenRule \in {"any", "balances", "all"}

VARIABLES
    now,
    token,     \* GateCreditToken, or NoToken
    held,      \* the contract's account in each token (kept by the tokens)
    balance,   \* GateCreditBalance of each depositor
    liability, \* GateCreditLiabilityTotal
    revenue,   \* GateCreditRevenue
    request,   \* GateCreditWithdrawalRequest of each depositor
    delay,     \* GateCreditWithdrawalDelay
    tiers,     \* FeeTierSchedule
    window,    \* FeeTierWindowLedgers
    volume,    \* ConsumerVolumeWindow of each consumer
    exempt     \* FeeExemption: expiry, 0 when there is none

funds == <<token, held, balance, liability, revenue>>
pricing == <<tiers, window, volume, exempt>>
vars == <<now, funds, request, delay, pricing>>

Depositors == 1..N
NoRequest == [amount |-> 0, unlock_at |-> 0]
NoWindow == [start |-> -1, count |-> 0]

-----------------------------------------------------------------------------
(* The fee of one call *)

\* Mutant of ValidSchedule: the order of the tiers is not checked.
ValidUnordered(s) ==
    /\ Len(s) <= MaxTiers
    /\ \A i \in DOMAIN s : s[i].fee \in 0..MaxFee

\* The checks of set_fee_tier_schedule.
ValidSchedule(s) ==
    /\ Len(s) <= MaxTiers
    /\ \A i \in DOMAIN s : s[i].fee \in 0..MaxFee
    /\ \A i \in 2..Len(s) : s[i - 1].min_volume < s[i].min_volume

\* The tiers compute_gate_fee walks over before it breaks off.
MetPrefix(s, v) == {i \in DOMAIN s : \A j \in 1..i : v >= s[j].min_volume}

\* compute_gate_fee: the fee of the last tier walked over.
ComputeGateFee(s, v) ==
    IF MetPrefix(s, v) = {} THEN 0
    ELSE s[Max(MetPrefix(s, v))].fee

\* The consumer's window at this call: a new one once window ledgers elapsed.
CurrentWindow(d) ==
    IF volume[d] = NoWindow \/ now - volume[d].start >= window
    THEN [start |-> now, count |-> 0]
    ELSE volume[d]

\* advance_consumer_volume_window: the counter saturates.
Advanced(w) == [w EXCEPT !.count = IF @ < MaxVolume THEN @ + 1 ELSE @]

-----------------------------------------------------------------------------
(* Token and credit accounting *)

\* A transfer into, or out of, the contract's account in the current token.
\* The token refuses to overdraw it.
Receive(a) == token # NoToken /\ held' = [held EXCEPT ![token] = @ + a]
Pay(a) ==
    /\ token # NoToken
    /\ held[token] >= a
    /\ held' = [held EXCEPT ![token] = @ - a]

\* Mutant of Debit: the balance is not checked.
DebitUnchecked(d, a) ==
    /\ balance' = [balance EXCEPT ![d] = @ - a]
    /\ liability' = IF liability >= a THEN liability - a ELSE 0

\* debit_gate_balance and sub_gate_credit_liability.
Debit(d, a) ==
    /\ a <= balance[d]
    /\ balance' = [balance EXCEPT ![d] = @ - a]
    /\ liability' = IF liability >= a THEN liability - a ELSE 0

-----------------------------------------------------------------------------
(* Depositors *)

\* Mutant of DepositGateCredits: the liability is not raised.
DepositUnowed(d, a) ==
    /\ liability + revenue + a <= MaxHeld
    /\ Receive(a)
    /\ balance' = [balance EXCEPT ![d] = @ + a]
    /\ UNCHANGED <<now, token, liability, revenue, request, delay, pricing>>

\* deposit_gate_credits
DepositGateCredits(d, a) ==
    /\ liability + revenue + a <= MaxHeld
    /\ Receive(a)
    /\ balance' = [balance EXCEPT ![d] = @ + a]
    /\ liability' = liability + a
    /\ UNCHANGED <<now, token, revenue, request, delay, pricing>>

\* withdraw_gate_credits_request: replaces any earlier request and reserves
\* nothing.  Requests that would unlock after the clock's bound are left out.
WithdrawGateCreditsRequest(d, a) ==
    /\ a <= balance[d]
    /\ now + delay <= MaxTime
    /\ request' = [request EXCEPT ![d] = [amount |-> a, unlock_at |-> now + delay]]
    /\ UNCHANGED <<now, funds, delay, pricing>>

\* Mutant of Unlocked: only the very ledger of the unlock time is accepted.
UnlockedOnTheDot(d) == request[d] # NoRequest /\ now = request[d].unlock_at

Unlocked(d) == request[d] # NoRequest /\ now >= request[d].unlock_at

\* withdraw_gate_credits
WithdrawGateCredits(d) ==
    /\ Unlocked(d)
    /\ Debit(d, request[d].amount)
    /\ Pay(request[d].amount)
    /\ request' = [request EXCEPT ![d] = NoRequest]
    /\ UNCHANGED <<now, token, revenue, delay, pricing>>

\* Mutant of QueryRiskGateMetered: the fee is earned and still owed.
QueryEarnsTwice(d) ==
    LET w == CurrentWindow(d)
        fee == IF exempt[d] > now THEN 0 ELSE ComputeGateFee(tiers, w.count)
    IN  /\ volume' = IF exempt[d] > now THEN volume
                                        ELSE [volume EXCEPT ![d] = Advanced(w)]
        /\ fee <= balance[d]
        /\ balance' = [balance EXCEPT ![d] = @ - fee]
        /\ revenue' = revenue + fee
        /\ UNCHANGED <<now, token, held, liability, request, delay, tiers, window, exempt>>

\* query_risk_gate_metered: an exempt consumer pays nothing and uses up no
\* volume.
QueryRiskGateMetered(d) ==
    LET w == CurrentWindow(d)
        fee == IF exempt[d] > now THEN 0 ELSE ComputeGateFee(tiers, w.count)
    IN  /\ volume' = IF exempt[d] > now THEN volume
                                        ELSE [volume EXCEPT ![d] = Advanced(w)]
        /\ IF fee > 0 THEN Debit(d, fee) /\ revenue' = revenue + fee
                      ELSE UNCHANGED <<balance, liability, revenue>>
        /\ UNCHANGED <<now, token, held, request, delay, tiers, window, exempt>>

-----------------------------------------------------------------------------
(* Governance *)

\* The documented precaution is "balances": outstanding balances in the old
\* token are fully withdrawn first.  The code itself checks nothing.
MayChangeToken ==
    \/ TokenRule = "any"
    \/ TokenRule = "balances" /\ liability = 0
    \/ TokenRule = "all" /\ liability = 0 /\ revenue = 0

\* set_gate_credit_token
SetGateCreditToken(t) ==
    /\ MayChangeToken
    /\ token' = t
    /\ UNCHANGED <<now, held, balance, liability, revenue, request, delay, pricing>>

\* set_gate_credit_withdrawal_delay: requests already made keep their time.
SetWithdrawalDelay(s) ==
    /\ delay' = s
    /\ UNCHANGED <<now, funds, request, pricing>>

\* Mutant of WithdrawGateCreditRevenue: what is paid stays on the books.
RevenueNotReduced(a) ==
    /\ a <= revenue
    /\ Pay(a)
    /\ UNCHANGED <<now, token, balance, liability, revenue, request, delay, pricing>>

\* withdraw_gate_credit_revenue
WithdrawGateCreditRevenue(a) ==
    /\ a <= revenue
    /\ revenue' = revenue - a
    /\ Pay(a)
    /\ UNCHANGED <<now, token, balance, liability, request, delay, pricing>>

\* set_fee_tier_schedule
SetFeeTierSchedule(s) ==
    /\ ValidSchedule(s)
    /\ tiers' = s
    /\ UNCHANGED <<now, funds, request, delay, window, volume, exempt>>

\* set_fee_tier_window_ledgers: windows already open are measured anew.
SetFeeTierWindow(w) ==
    /\ window' = w
    /\ UNCHANGED <<now, funds, request, delay, tiers, volume, exempt>>

\* set_fee_exemption
SetFeeExemption(d, expires_at) ==
    /\ expires_at > now
    /\ exempt' = [exempt EXCEPT ![d] = expires_at]
    /\ UNCHANGED <<now, funds, request, delay, tiers, window, volume>>

\* clear_fee_exemption
ClearFeeExemption(d) ==
    /\ exempt' = [exempt EXCEPT ![d] = 0]
    /\ UNCHANGED <<now, funds, request, delay, tiers, window, volume>>

-----------------------------------------------------------------------------
NextLedger ==
    /\ now < MaxTime
    /\ now' = now + 1
    /\ UNCHANGED <<funds, request, delay, pricing>>

Init ==
    /\ now = 0
    /\ token = NoToken
    /\ held = [t \in Tokens |-> 0]
    /\ balance = [d \in Depositors |-> 0]
    /\ liability = 0
    /\ revenue = 0
    /\ request = [d \in Depositors |-> NoRequest]
    /\ delay = 0
    /\ tiers = <<>>
    /\ window \in Windows
    /\ volume = [d \in Depositors |-> NoWindow]
    /\ exempt = [d \in Depositors |-> 0]

Next ==
    \/ \E d \in Depositors, a \in Amounts : DepositGateCredits(d, a)
    \/ \E d \in Depositors, a \in Amounts : WithdrawGateCreditsRequest(d, a)
    \/ \E d \in Depositors : WithdrawGateCredits(d)
    \/ \E d \in Depositors : QueryRiskGateMetered(d)
    \/ \E t \in Tokens : SetGateCreditToken(t)
    \/ \E s \in Delays : SetWithdrawalDelay(s)
    \/ \E a \in Amounts : WithdrawGateCreditRevenue(a)
    \/ \E s \in Schedules : SetFeeTierSchedule(s)
    \/ \E w \in Windows : SetFeeTierWindow(w)
    \/ \E d \in Depositors, e \in 1..MaxTime : SetFeeExemption(d, e)
    \/ \E d \in Depositors : ClearFeeExemption(d)
    \/ NextLedger

Spec == Init /\ [][Next]_vars

\* The ledger closes again and again, and a depositor whose withdrawal is
\* unlocked keeps calling withdraw_gate_credits.
FairSpec ==
    Spec /\ WF_vars(NextLedger) /\ \A d \in Depositors : WF_vars(WithdrawGateCredits(d))

-----------------------------------------------------------------------------
(* Properties *)

Requests == [amount : Nat, unlock_at : Nat]
VolumeWindows == [start : Nat, count : 0..MaxVolume]

\* The type of every variable: no credit, revenue or account goes negative.
TypeOK ==
    /\ now \in 0..MaxTime
    /\ token \in Tokens \cup {NoToken}
    /\ held \in [Tokens -> Nat]
    /\ balance \in [Depositors -> Nat]
    /\ liability \in Nat
    /\ revenue \in Nat
    /\ request \in [Depositors -> Requests]
    /\ delay \in Nat
    /\ tiers \in Seq([min_volume : Nat, fee : Int])
    /\ window \in Windows
    /\ volume \in [Depositors -> VolumeWindows \cup {NoWindow}]
    /\ exempt \in [Depositors -> 0..MaxTime]

\* P lists the running totals of the balances, depositor after depositor.
RunningTotals(P) == P[0] = 0 /\ \A d \in Depositors : P[d] = P[d - 1] + balance[d]

\* The O(1) counter GateCreditLiabilityTotal is the sum of the balances it
\* stands for: its subtraction never has to be clamped at zero.
LiabilityIsSum == \E P \in [0..N -> 0..liability] : RunningTotals(P) /\ P[N] = liability

\* The contract holds enough of the configured token for every depositor's
\* credit and for the revenue together.
Solvent == token # NoToken => held[token] >= liability + revenue

\* A withdrawal that is unlocked and covered by its balance goes through: the
\* token transfer of withdraw_gate_credits cannot fail, whatever governance
\* withdrew before.
UnlockedIsPayable ==
    \A d \in Depositors : Unlocked(d) /\ request[d].amount <= balance[d]
        => token # NoToken /\ held[token] >= request[d].amount

\* compute_gate_fee, which stops at the first tier not reached, prices every
\* volume at the highest tier it reaches, and at 0 below the lowest.
FeeIsHighestTierMet ==
    \A v \in 0..MaxVolume :
        LET met == {i \in DOMAIN tiers : tiers[i].min_volume <= v}
        IN  /\ met = {} => ComputeGateFee(tiers, v) = 0
            /\ \A i \in met : (\A j \in met : tiers[j].min_volume <= tiers[i].min_volume)
                                => ComputeGateFee(tiers, v) = tiers[i].fee

\* A request is in the end paid, unless the depositor spends the credit on
\* queries: no governance call can hold it up.
RequestIsSettled ==
    \A d \in Depositors : request[d] # NoRequest
        ~> request[d] = NoRequest \/ request[d].amount > balance[d]
=============================================================================
