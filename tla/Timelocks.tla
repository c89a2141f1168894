----------------------------- MODULE Timelocks -----------------------------
(***************************************************************************)
(* How parameters and the contract's code change over time.  There are     *)
(* four ways: a setter that takes effect at once (cooldown, decay rate,    *)
(* velocity cap), a queued change per parameter that anyone applies after  *)
(* a fixed delay, a bundle of risk threshold and cooldown under the same   *)
(* delay, and numbered proposals under the upgrade delay, which service    *)
(* signers may veto.  Upgrades of the code wait for the upgrade delay,     *)
(* which is itself a parameter.                                            *)
(*                                                                         *)
(* Who may call is left open: an action of the administrators or of the    *)
(* service signers is possible whenever its other checks pass.             *)
(***************************************************************************)
EXTENDS Integers, FiniteSets

CONSTANTS
    Inputs,        \* for each parameter, the values callers try to set
    ProposalKeys,  \* the parameters for which proposals are tried
    Bounds,        \* bounds_registry, and 0..100 for the risk threshold
    Defaults,      \* the parameters of a new contract
    Hashes,        \* WASM hashes that may be proposed
    InitialHash,   \* the code the contract is deployed with
    ParamDelay,    \* DEFAULT_PARAM_CHANGE_DELAY_SECS
    CleanupBuffer, \* how long a proposal stays expired before the cleanup
    MaxPending,    \* MAX_PENDING_PARAMETER_PROPOSALS
    MaxProposals,  \* bound on the proposals of a behaviour
    MaxOpen,       \* bound on the announcements open at a time
    MaxReported,   \* bound on the reported deletions
    MaxTime        \* bound on the clock

\* The parameters; those of Queueable have a queued change each, those of
\* Proposable a key in bounds_registry.
Queueable == {"threshold", "depth", "upgradeDelay", "staleness"}
Proposable == {"cooldown", "depth", "decay", "velocity", "upgradeDelay", "staleness"}
Parameters == Queueable \cup Proposable

InBounds(p, v) == v \in Bounds[p].min .. Bounds[p].max
MinUpgradeDelay == Bounds["upgradeDelay"].min

ASSUME BoundsTyped == /\ DOMAIN Bounds = Parameters
                      /\ \A p \in Parameters : Bounds[p].min \in Nat /\ Bounds[p].max \in Nat
ASSUME InputsTyped == \A p \in Parameters : Inputs[p] \subseteq Nat
ASSUME ProposalKeysTyped == ProposalKeys \subseteq Proposable
ASSUME DefaultsInBounds ==
    /\ DOMAIN Defaults = Parameters /\ Defaults = [p \in Parameters |-> Defaults[p]]
    /\ \A p \in Parameters : Defaults[p] \in Nat
    /\ \A p \in Parameters : InBounds(p, Defaults[p])
ASSUME HashesTyped == InitialHash \notin Hashes
ASSUME DelaysTyped ==
    /\ ParamDelay \in Nat /\ CleanupBuffer \in Nat
    /\ ParamDelay <= MinUpgradeDelay /\ MinUpgradeDelay > 0
ASSUME LimitsTyped == /\ MaxPending \in Nat /\ MaxProposals \in Nat /\ MaxOpen \in Nat
                      /\ MaxReported \in Nat /\ MaxTime \in Nat

VARIABLES
    now,
    params,   \* the parameters in force
    queued,   \* PendingParamChange of each queueable parameter
    bundle,   \* PendingPolicyBundle
    upgrade,  \* PendingUpgrade
    wasm,     \* the hash of the code that runs
    records,  \* ParameterProposal records by id
    nextId,   \* ParameterProposalNextId
    pending,  \* PendingParameterProposalIds; ids are issued once and in order,
              \* so the list is determined by the set of its members
    reported  \* deletions cleanup_expired_param_proposals has reported

proposals == <<records, nextId, pending>>
vars == <<now, params, queued, bundle, upgrade, wasm, proposals, reported>>

Ids == 1..MaxProposals
NoChange == [value |-> -1, at |-> 0]
NoBundle == [threshold |-> -1, cooldown |-> -1, at |-> 0]
NoUpgrade == [hash |-> InitialHash, at |-> 0, after |-> -1]
NoRecord == [key |-> "none", value |-> -1, at |-> 0, lock |-> 0, status |-> "none"]

\* The bound on what is open at a time; interactions are between few of them.
BelowMaxOpen ==
    Cardinality({p \in Queueable : queued[p] # NoChange}) + Cardinality(pending)
      + (IF bundle = NoBundle THEN 0 ELSE 1) + (IF upgrade = NoUpgrade THEN 0 ELSE 1) < MaxOpen

-----------------------------------------------------------------------------
(* Queued changes *)

\* What the setters have in common once their own check has passed: one
\* pending change per parameter.
Queue(p, v) ==
    /\ queued[p] = NoChange /\ BelowMaxOpen
    /\ queued' = [queued EXCEPT ![p] = [value |-> v, at |-> now]]
    /\ UNCHANGED <<now, params, bundle, upgrade, wasm, proposals, reported>>

SetRiskThreshold(v) == InBounds("threshold", v) /\ Queue("threshold", v)

SetHistoryMaxDepth(v) == InBounds("depth", v) /\ Queue("depth", v)

\* Mutant of SetUpgradeDelay: the bounds are not checked.
SetAnyUpgradeDelay(v) == Queue("upgradeDelay", v)

SetUpgradeDelay(v) == InBounds("upgradeDelay", v) /\ Queue("upgradeDelay", v)

\* Only zero is refused here.
SetStalenessWindow(v) == v # 0 /\ Queue("staleness", v)

ApplyParamChange(p) ==
    /\ queued[p] # NoChange
    /\ now >= queued[p].at + ParamDelay
    /\ params' = [params EXCEPT ![p] = queued[p].value]
    /\ queued' = [queued EXCEPT ![p] = NoChange]
    /\ UNCHANGED <<now, bundle, upgrade, wasm, proposals, reported>>

-----------------------------------------------------------------------------
(* The policy bundle *)

\* Mutant of ProposePolicyBundle: the cooldown is not checked.
ProposeAnyBundle(t, c) ==
    /\ InBounds("threshold", t)
    /\ bundle = NoBundle /\ BelowMaxOpen
    /\ bundle' = [threshold |-> t, cooldown |-> c, at |-> now]
    /\ UNCHANGED <<now, params, queued, upgrade, wasm, proposals, reported>>

ProposePolicyBundle(t, c) ==
    /\ InBounds("threshold", t) /\ InBounds("cooldown", c)
    /\ bundle = NoBundle /\ BelowMaxOpen
    /\ bundle' = [threshold |-> t, cooldown |-> c, at |-> now]
    /\ UNCHANGED <<now, params, queued, upgrade, wasm, proposals, reported>>

ApplyPolicyBundle ==
    /\ bundle # NoBundle
    /\ now >= bundle.at + ParamDelay
    /\ params' = [params EXCEPT !["threshold"] = bundle.threshold,
                                !["cooldown"] = bundle.cooldown]
    /\ bundle' = NoBundle
    /\ UNCHANGED <<now, queued, upgrade, wasm, proposals, reported>>

-----------------------------------------------------------------------------
(* Setters that take effect at once *)

SetNow(p, v) ==
    /\ params' = [params EXCEPT ![p] = v]
    /\ UNCHANGED <<now, queued, bundle, upgrade, wasm, proposals, reported>>

SetCooldown(v) == InBounds("cooldown", v) /\ SetNow("cooldown", v)
SetDecayRate(v) == InBounds("decay", v) /\ SetNow("decay", v)
\* Any u32; the bounds of the velocity cap are those of its type.
SetScoreVelocityCap(v) == InBounds("velocity", v) /\ SetNow("velocity", v)

-----------------------------------------------------------------------------
(* Upgrades *)

ProposeUpgrade(h) ==
    /\ upgrade = NoUpgrade /\ BelowMaxOpen
    /\ upgrade' = [hash |-> h, at |-> now, after |-> now + params["upgradeDelay"]]
    /\ UNCHANGED <<now, params, queued, bundle, wasm, proposals, reported>>

ExecuteUpgrade ==
    /\ upgrade # NoUpgrade
    /\ now >= upgrade.after
    /\ wasm' = upgrade.hash
    /\ upgrade' = NoUpgrade
    /\ UNCHANGED <<now, params, queued, bundle, proposals, reported>>

VetoUpgrade ==
    /\ upgrade # NoUpgrade
    /\ upgrade' = NoUpgrade
    /\ UNCHANGED <<now, params, queued, bundle, wasm, proposals, reported>>

-----------------------------------------------------------------------------
(* Numbered proposals *)

\* validate_cross_parameter_constraints: the cooldown fits in the staleness
\* window in force, and the other way round.
CrossConstraints(p, v) ==
    /\ p = "cooldown" => v <= params["staleness"]
    /\ p = "staleness" => v >= params["cooldown"]

\* validate_parameter_value.
ValidValue(p, v) == InBounds(p, v) /\ CrossConstraints(p, v)

\* is_parameter_proposal_expired.
Expired(r) == now > r.at + 2 * r.lock

\* mark_parameter_proposal_status for the ids of S: the new status, and
\* (remove_pending_parameter_proposal) the list of pending ids without them.
Marked(S, s) == [i \in Ids |-> IF i \in S THEN [records[i] EXCEPT !.status = s] ELSE records[i]]

\* Mutant of Unlisted: the ids stay in the list.
StillListed(S) == pending

Unlisted(S) == pending \ S

\* What prune_expired_parameter_proposals marks as expired.
Lapsed == {i \in pending : records[i].status = "Pending" /\ Expired(records[i])}

\* A proposal is validated against the parameters in force, and its time lock
\* is the upgrade delay in force.
ProposeParameterChange(p, v) ==
    /\ ValidValue(p, v)
    /\ Cardinality(Unlisted(Lapsed)) < MaxPending
    /\ params["upgradeDelay"] >= MinUpgradeDelay
    /\ nextId <= MaxProposals /\ BelowMaxOpen
    /\ records' = [Marked(Lapsed, "Expired") EXCEPT ![nextId] =
                     [key |-> p, value |-> v, at |-> now,
                      lock |-> params["upgradeDelay"], status |-> "Pending"]]
    /\ pending' = Unlisted(Lapsed) \cup {nextId}
    /\ nextId' = nextId + 1
    /\ UNCHANGED <<now, params, queued, bundle, upgrade, wasm, reported>>

\* What a pending proposal allows at this moment.
CanExecute(r) ==
    /\ r.status = "Pending"
    /\ ~Expired(r) /\ now >= r.at + r.lock

\* Mutant of CanVeto: a veto is possible during the whole time lock.
CanVetoThroughout(r) == r.status = "Pending" /\ now <= r.at + r.lock

CanVeto(r) == r.status = "Pending" /\ now <= r.at + r.lock \div 2

\* Mutant of ExecuteParameterChange: the value is not validated again.
ExecuteUnchecked(id) ==
    /\ CanExecute(records[id])
    /\ params' = [params EXCEPT ![records[id].key] = records[id].value]
    /\ records' = Marked({id}, "Executed")
    /\ pending' = Unlisted({id})
    /\ UNCHANGED <<now, queued, bundle, upgrade, wasm, nextId, reported>>

\* apply_parameter_change validates the value against the parameters in force
\* now; a value that no longer fits fails the call.
ExecuteParameterChange(id) ==
    /\ CanExecute(records[id])
    /\ ValidValue(records[id].key, records[id].value)
    /\ params' = [params EXCEPT ![records[id].key] = records[id].value]
    /\ records' = Marked({id}, "Executed")
    /\ pending' = Unlisted({id})
    /\ UNCHANGED <<now, queued, bundle, upgrade, wasm, nextId, reported>>

\* Mutant of VetoParameterChange: any proposal can be vetoed in its window.
VetoAnyStatus(id) ==
    /\ records[id] # NoRecord
    /\ now <= records[id].at + 2 * records[id].lock
    /\ records' = Marked({id}, "Vetoed")
    /\ pending' = Unlisted({id})
    /\ UNCHANGED <<now, params, queued, bundle, upgrade, wasm, nextId, reported>>

VetoParameterChange(id) ==
    /\ CanVeto(records[id])
    /\ records' = Marked({id}, "Vetoed")
    /\ pending' = Unlisted({id})
    /\ UNCHANGED <<now, params, queued, bundle, upgrade, wasm, nextId, reported>>

\* Reading a proposal prunes; reading one that does not exist fails.
GetParameterProposal(id) ==
    /\ records[id] # NoRecord
    /\ records' = Marked(Lapsed, "Expired")
    /\ pending' = Unlisted(Lapsed)
    /\ UNCHANGED <<now, params, queued, bundle, upgrade, wasm, nextId, reported>>

\* The cleanup removes records from the persistent storage; they are kept in
\* the instance storage, so it reports deletions and deletes nothing.
Overdue == {i \in Ids : records[i].status = "Expired"
                        /\ now > records[i].at + 2 * records[i].lock + CleanupBuffer}
CleanupExpiredParamProposals ==
    /\ reported' = reported + Cardinality(Overdue)
    /\ reported' <= MaxReported
    /\ UNCHANGED <<now, params, queued, bundle, upgrade, wasm, proposals>>

Tick ==
    /\ now < MaxTime
    /\ now' = now + 1
    /\ UNCHANGED <<params, queued, bundle, upgrade, wasm, proposals, reported>>

-----------------------------------------------------------------------------

Init ==
    /\ now = 0
    /\ params = Defaults
    /\ queued = [p \in Queueable |-> NoChange]
    /\ bundle = NoBundle
    /\ upgrade = NoUpgrade
    /\ wasm = InitialHash
    /\ records = [i \in Ids |-> NoRecord]
    /\ nextId = 1
    /\ pending = {}
    /\ reported = 0

Next ==
    \/ \E v \in Inputs["threshold"] : SetRiskThreshold(v)
    \/ \E v \in Inputs["depth"] : SetHistoryMaxDepth(v)
    \/ \E v \in Inputs["upgradeDelay"] : SetUpgradeDelay(v)
    \/ \E v \in Inputs["staleness"] : SetStalenessWindow(v)
    \/ \E p \in Queueable : ApplyParamChange(p)
    \/ \E t \in Inputs["threshold"], c \in Inputs["cooldown"] : ProposePolicyBundle(t, c)
    \/ ApplyPolicyBundle
    \/ \E v \in Inputs["cooldown"] : SetCooldown(v)
    \/ \E v \in Inputs["decay"] : SetDecayRate(v)
    \/ \E v \in Inputs["velocity"] : SetScoreVelocityCap(v)
    \/ \E h \in Hashes : ProposeUpgrade(h)
    \/ ExecuteUpgrade
    \/ VetoUpgrade
    \/ \E p \in ProposalKeys : \E v \in Inputs[p] : ProposeParameterChange(p, v)
    \/ \E id \in Ids : ExecuteParameterChange(id)
    \/ \E id \in Ids : VetoParameterChange(id)
    \/ \E id \in Ids : GetParameterProposal(id)
    \/ CleanupExpiredParamProposals
    \/ Tick

Spec == Init /\ [][Next]_vars

-----------------------------------------------------------------------------

Statuses == {"Pending", "Executed", "Vetoed", "Expired"}
Record == [key : Proposable, value : Nat, at : Nat, lock : Nat, status : Statuses]

\* Every variable has its type, and whichever way a parameter was changed it
\* is within the hard limits of bounds_registry (the staleness window alone
\* has a setter that does not consult them).
TypeOK ==
    /\ now \in 0..MaxTime
    /\ params \in [Parameters -> Nat]
    /\ \A p \in Parameters \ {"staleness"} : InBounds(p, params[p])
    /\ queued \in [Queueable -> [value : Nat, at : Nat] \cup {NoChange}]
    /\ bundle \in [threshold : Nat, cooldown : Nat, at : Nat] \cup {NoBundle}
    /\ upgrade \in [hash : Hashes, at : Nat, after : Nat] \cup {NoUpgrade}
    /\ wasm \in Hashes \cup {InitialHash}
    /\ records \in [Ids -> Record \cup {NoRecord}]
    /\ nextId \in 1..(MaxProposals + 1)
    /\ pending \subseteq Ids
    /\ reported \in Nat

\* The pending list holds exactly the proposals whose record says pending,
\* never more than the limit of the contract: proposals neither
\* vanish from the list that operators watch nor block a place in it.
PendingMatchesRecords ==
    /\ pending = {i \in Ids : records[i].status = "Pending"}
    /\ Cardinality(pending) <= MaxPending

\* A proposal that was executed, vetoed or found expired stays so: no later
\* call executes it a second time or brings it back.
SettledIsFinal ==
    [][\A i \in Ids : records[i].status \in Statuses \ {"Pending"} => records'[i] = records[i]]_vars

\* What has been announced for a parameter: its queued change, the bundle and
\* the pending proposals.
Announced(p) ==
    {queued[p]}
    \cup {[value |-> bundle.threshold, at |-> bundle.at] : t \in {"threshold"} \cap {p}}
    \cup {[value |-> records[i].value, at |-> records[i].at] :
             i \in {j \in Ids : records[j].status = "Pending" /\ records[j].key = p}}

\* A queueable parameter changes only to a value announced ParamDelay before,
\* and the code only to a hash announced the least upgrade delay before,
\* whatever was done to the delay itself in between.
AnnouncedInAdvance ==
    [][/\ \A p \in Queueable : params'[p] # params[p] =>
            \E a \in Announced(p) : a.value = params'[p] /\ now >= a.at + ParamDelay
       /\ wasm' # wasm =>
            upgrade.hash = wasm' /\ now >= upgrade.at + MinUpgradeDelay]_vars

\* Executing a proposal never makes the cooldown exceed the staleness window,
\* even when the parameters changed after the proposal was accepted.
ProposalsKeepOrder ==
    [][(\E i \in Ids : records[i].status = "Pending" /\ records'[i].status = "Executed")
         => (params["cooldown"] <= params["staleness"] => params'["cooldown"] <= params'["staleness"])]_vars

\* No proposal can be vetoed and executed at the same moment: the signers have
\* the first half of the time lock to themselves.
VetoBeforeExecute == \A i \in Ids : ~(CanVeto(records[i]) /\ CanExecute(records[i]))

\* "Returns the number of proposals deleted" (cleanup_expired_param_proposals):
\* deletions are reported for records that are gone.
ReportedAreGone == reported <= Cardinality({i \in 1..(nextId - 1) : records[i] = NoRecord})
=============================================================================
