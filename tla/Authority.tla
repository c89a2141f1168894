----------------------------- MODULE Authority -----------------------------
(***************************************************************************)
(* Who may act for the contract.  There is a single admin, replaced in two *)
(* steps, and a set of admin signers with a threshold; the set takes over  *)
(* once both are given.  A policy adds, to a group of operations, the      *)
(* consent of an approver who is not an administrator.  Upgrades collect   *)
(* the consent of the signers.                                             *)
(*                                                                         *)
(* A call names its signers (the argument admin_signers); the addresses    *)
(* whose require_auth succeeds are recorded in the history variable last,  *)
(* with the rule that the call had to satisfy.  The host refuses a second  *)
(* require_auth of an address in a call, so signers form a set.            *)
(***************************************************************************)
EXTENDS Integers, FiniteSets

CONSTANTS
    Addresses,
    NoAddress,      \* the absent Option<Address>
    InitialAdmin,   \* the admin given to initialize
    MaxAdminSigners,\* MAX_ADMIN_SIGNERS
    Policies        \* the capability policies in use

ASSUME AddressesTyped ==
    /\ InitialAdmin \in Addresses /\ NoAddress \notin Addresses
    /\ IsFiniteSet(Addresses)
ASSUME LimitTyped == MaxAdminSigners \in Nat
ASSUME PoliciesTyped ==
    {"SignerAdmin", "UpgradeGovernance"} \subseteq Policies /\ "none" \notin Policies

VARIABLES
    admin, pendingAdmin,
    adminSet, adminThreshold,
    approval,    \* PolicyApproval of each policy
    approvals,   \* UpgradeApprovals
    upgrade,     \* is an upgrade pending
    last         \* history: the rule and the authorisers of the latest call

Disabled == [enabled |-> FALSE, approver |-> NoAddress]

vars == <<admin, pendingAdmin, adminSet, adminThreshold, approval, approvals, upgrade, last>>

-----------------------------------------------------------------------------
(* Authorisation *)

MultiSig == adminSet # {} /\ adminThreshold > 0

\* Mutant of AdminAuth: signers are not counted.
AdminAuthUncounted(signers) == MultiSig => signers \subseteq adminSet

\* require_admin_auth; without a quorum rule the argument is ignored.
AdminAuth(signers) ==
    MultiSig => /\ Cardinality(signers) >= adminThreshold
                /\ Cardinality(signers) <= Cardinality(adminSet)
                /\ signers \subseteq adminSet

AdminAuthorisers(signers) == IF MultiSig THEN signers ELSE {admin}

\* policy_approver_conflicts_with_admin and its twin for deletions.
Conflicts(a) == a = admin \/ a \in adminSet

\* Mutant of ApproverAuth: a conflict is not looked for when the policy is used.
ApproverAuthOnce(p) == approval[p].enabled => approval[p].approver # NoAddress

ApproverAuth(p) ==
    approval[p].enabled => /\ approval[p].approver # NoAddress
                           /\ ~Conflicts(approval[p].approver)

\* require_policy_auth, and require_deletion_auth for the policy DataDeletion.
PolicyAuth(p, signers) == AdminAuth(signers) /\ ApproverAuth(p)

PolicyAuthorisers(p, signers) ==
    AdminAuthorisers(signers) \cup (IF approval[p].enabled THEN {approval[p].approver} ELSE {})

ByAdmins(signers) ==
    AdminAuth(signers) /\ last' = [rule |-> "none", by |-> AdminAuthorisers(signers)]

ByPolicy(p, signers) ==
    PolicyAuth(p, signers) /\ last' = [rule |-> p, by |-> PolicyAuthorisers(p, signers)]

-----------------------------------------------------------------------------
(* The single admin *)

\* Mutant of TransferAdmin: the admin's own key is enough.
TransferByAdminKey(signers, new) ==
    /\ last' = [rule |-> "none", by |-> {admin}]
    /\ pendingAdmin' = new
    /\ UNCHANGED <<admin, adminSet, adminThreshold, approval, approvals, upgrade>>

TransferAdmin(signers, new) ==
    /\ ByAdmins(signers)
    /\ pendingAdmin' = new
    /\ UNCHANGED <<admin, adminSet, adminThreshold, approval, approvals, upgrade>>

AcceptAdmin ==
    /\ pendingAdmin # NoAddress
    /\ admin' = pendingAdmin
    /\ pendingAdmin' = NoAddress
    /\ last' = [rule |-> "none", by |-> {pendingAdmin}]
    /\ UNCHANGED <<adminSet, adminThreshold, approval, approvals, upgrade>>

CancelAdminTransfer(signers) ==
    /\ pendingAdmin # NoAddress
    /\ ByAdmins(signers)
    /\ pendingAdmin' = NoAddress
    /\ UNCHANGED <<admin, adminSet, adminThreshold, approval, approvals, upgrade>>

-----------------------------------------------------------------------------
(* The admin signers *)

AddAdminSigner(signers, a) ==
    /\ ByPolicy("SignerAdmin", signers)
    /\ Cardinality(adminSet) < MaxAdminSigners
    /\ a \notin adminSet
    /\ adminSet' = adminSet \cup {a}
    /\ approvals' = {}
    /\ UNCHANGED <<admin, pendingAdmin, adminThreshold, approval, upgrade>>

\* Mutant of LoweredThreshold: a threshold above the size is kept.
KeptThreshold(set) == IF set = {} THEN 0 ELSE adminThreshold

\* The threshold follows a set that has become smaller.
LoweredThreshold(set) ==
    IF set = {} THEN 0
    ELSE IF adminThreshold > Cardinality(set) THEN Cardinality(set) ELSE adminThreshold

RemoveAdminSigner(signers, a) ==
    /\ ByPolicy("SignerAdmin", signers)
    /\ a \in adminSet
    /\ adminSet' = adminSet \ {a}
    /\ adminThreshold' = LoweredThreshold(adminSet \ {a})
    /\ approvals' = {}
    /\ UNCHANGED <<admin, pendingAdmin, approval, upgrade>>

\* Mutant of SetAdminThreshold: only zero is refused.
SetAnyThreshold(signers, t) ==
    /\ ByPolicy("SignerAdmin", signers)
    /\ t # 0
    /\ adminThreshold' = t
    /\ UNCHANGED <<admin, pendingAdmin, adminSet, approval, approvals, upgrade>>

SetAdminThreshold(signers, t) ==
    /\ ByPolicy("SignerAdmin", signers)
    /\ t # 0 /\ t <= Cardinality(adminSet)
    /\ adminThreshold' = t
    /\ UNCHANGED <<admin, pendingAdmin, adminSet, approval, approvals, upgrade>>

-----------------------------------------------------------------------------
(* Policies *)

\* set_policy_approval, and set_deletion_approval_policy for DataDeletion.
SetPolicyApproval(signers, p, new) ==
    /\ ByAdmins(signers)
    /\ new.enabled => new.approver # NoAddress /\ ~Conflicts(new.approver)
    /\ approval' = [approval EXCEPT ![p] = new]
    /\ UNCHANGED <<admin, pendingAdmin, adminSet, adminThreshold, approvals, upgrade>>

\* A call of another component that the policy guards: a pause, a queued
\* parameter or bundle, an audited deletion.
GuardedCall(signers, p) ==
    /\ p \notin {"SignerAdmin", "UpgradeGovernance"}
    /\ ByPolicy(p, signers)
    /\ UNCHANGED <<admin, pendingAdmin, adminSet, adminThreshold, approval, approvals, upgrade>>

-----------------------------------------------------------------------------
(* Upgrades *)

\* The consents collected so far and those of this call; the proposal is
\* stored when they reach the threshold.
ProposeUpgrade(signers) ==
    LET all == approvals \cup signers
        enough == MultiSig => Cardinality(all) >= adminThreshold
    IN /\ ByPolicy("UpgradeGovernance", signers)
       /\ ~upgrade
       /\ upgrade' = enough
       /\ approvals' = IF ~MultiSig THEN approvals ELSE IF enough THEN {} ELSE all
       /\ UNCHANGED <<admin, pendingAdmin, adminSet, adminThreshold, approval>>

\* execute_upgrade and veto_upgrade; the time lock is the subject of Timelocks.
SettleUpgrade(signers) ==
    /\ ByPolicy("UpgradeGovernance", signers)
    /\ upgrade
    /\ upgrade' = FALSE
    /\ UNCHANGED <<admin, pendingAdmin, adminSet, adminThreshold, approval, approvals>>

-----------------------------------------------------------------------------

Init ==
    /\ admin = InitialAdmin
    /\ pendingAdmin = NoAddress
    /\ adminSet = {} /\ adminThreshold = 0
    /\ approval = [p \in Policies |-> Disabled]
    /\ approvals = {}
    /\ upgrade = FALSE
    /\ last = [rule |-> "none", by |-> {InitialAdmin}]

\* The arguments tried: without a quorum rule the signers are ignored, and a
\* policy that is off has an approver nobody looks at.
SignerInputs == IF MultiSig THEN SUBSET Addresses ELSE {{}}
ApprovalInputs ==
    {Disabled} \cup {[enabled |-> TRUE, approver |-> a] : a \in Addresses \cup {NoAddress}}

Next ==
    \/ AcceptAdmin
    \/ \E signers \in SignerInputs :
         \/ \E a \in Addresses : TransferAdmin(signers, a)
         \/ CancelAdminTransfer(signers)
         \/ \E a \in Addresses : AddAdminSigner(signers, a)
         \/ \E a \in Addresses : RemoveAdminSigner(signers, a)
         \/ \E t \in 0 .. MaxAdminSigners + 1 : SetAdminThreshold(signers, t)
         \/ \E p \in Policies, new \in ApprovalInputs : SetPolicyApproval(signers, p, new)
         \/ \E p \in Policies : GuardedCall(signers, p)
         \/ ProposeUpgrade(signers)
         \/ SettleUpgrade(signers)

Spec == Init /\ [][Next]_vars

-----------------------------------------------------------------------------

\* Every variable has its type.
TypeOK ==
    /\ admin \in Addresses
    /\ pendingAdmin \in Addresses \cup {NoAddress}
    /\ adminSet \in SUBSET Addresses
    /\ adminThreshold \in 0..MaxAdminSigners
    /\ approval \in [Policies -> [enabled : BOOLEAN, approver : Addresses \cup {NoAddress}]]
    /\ approvals \in SUBSET Addresses
    /\ upgrade \in BOOLEAN
    /\ last \in [rule : Policies \cup {"none"}, by : SUBSET Addresses]

\* The signers can always reach the threshold they are held to, whatever the
\* order of additions, removals and changes of the threshold, and an empty
\* set is not held to one: administration is never locked out.
QuorumReachable ==
    /\ Cardinality(adminSet) <= MaxAdminSigners
    /\ adminThreshold <= Cardinality(adminSet)

\* propose_upgrade can store consents short of the threshold and complete
\* them later, but require_admin_auth has asked for a full quorum before: no
\* consent is ever left over, not even when the set or the threshold changes
\* between proposals.
NoPartialApprovals == approvals = {}

\* An operation under an enabled policy has the consent of somebody who is
\* neither the admin nor an admin signer at the time of the call, even when
\* the approver was made one after the policy was set.
SeparationOfDuties ==
    [][\A p \in Policies : last'.rule = p /\ approval[p].enabled
         => \E a \in last'.by : ~Conflicts(a)]_vars

\* Once signers and a threshold are given, nobody changes who holds authority
\* (the signers, the threshold, the approvers, the nominee) without the
\* consent of as many signers as the threshold says; the nominee alone
\* completes a nomination.
QuorumControlsAuthority ==
    [][MultiSig /\ <<adminSet, adminThreshold, approval, pendingAdmin>>'
                    # <<adminSet, adminThreshold, approval, pendingAdmin>>
       => \/ Cardinality(last'.by \cap adminSet) >= adminThreshold
          \/ pendingAdmin # NoAddress /\ last'.by = {pendingAdmin} /\ admin' = pendingAdmin]_vars

=============================================================================
