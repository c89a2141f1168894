-------------------------- MODULE AuthorityProofs --------------------------
(***************************************************************************)
(* What Authority guarantees for every set of addresses, every limit and   *)
(* every set of policies.                                                  *)
(***************************************************************************)
EXTENDS Authority, FiniteSetTheorems, TLAPS

\* The inductive invariant: the two facts about quorums and consents hold
\* together with the types, whatever is called.
Inv == TypeOK /\ QuorumReachable /\ NoPartialApprovals

\* Adding and removing an element of a set of addresses.
LEMMA SizeOfChange ==
    ASSUME NEW S \in SUBSET Addresses, NEW a \in Addresses
    PROVE  /\ Cardinality(S) \in Nat
           /\ a \notin S => Cardinality(S \cup {a}) = Cardinality(S) + 1
           /\ a \in S => Cardinality(S \ {a}) = Cardinality(S) - 1
           /\ S = {} <=> Cardinality(S) = 0
<1>1. IsFiniteSet(S)
  BY FS_Subset, AddressesTyped
<1>2. QED
  BY <1>1, FS_CardinalityType, FS_AddElement, FS_RemoveElement, FS_EmptySet

\* What set_policy_approval may store is a PolicyApproval.
LEMMA ApprovalsAreTyped ==
    \A new \in ApprovalInputs : new \in [enabled : BOOLEAN, approver : Addresses \cup {NoAddress}]
<1>1. Disabled \in [enabled : BOOLEAN, approver : Addresses \cup {NoAddress}]
  BY Zenon DEF Disabled
<1>2. \A a \in Addresses \cup {NoAddress} : [enabled |-> TRUE, approver |-> a]
                \in [enabled : BOOLEAN, approver : Addresses \cup {NoAddress}]
  BY Zenon
<1>3. QED
  BY <1>1, <1>2, Zenon DEF ApprovalInputs

LEMMA InitInv == Init => Inv
<1> SUFFICES ASSUME Init PROVE Inv
  OBVIOUS
<1>1. TypeOK
  <2>1. approval \in [Policies -> [enabled : BOOLEAN, approver : Addresses \cup {NoAddress}]]
    <3>1. Disabled \in ApprovalInputs
      BY DEF ApprovalInputs
    <3>2. Disabled \in [enabled : BOOLEAN, approver : Addresses \cup {NoAddress}]
      BY <3>1, ApprovalsAreTyped
    <3>3. QED
      BY <3>2, Zenon DEF Init
  <2>2. adminThreshold \in 0..MaxAdminSigners
    BY LimitTyped DEF Init
  <2>3. last \in [rule : Policies \cup {"none"}, by : SUBSET Addresses]
    BY AddressesTyped DEF Init
  <2>4. upgrade \in BOOLEAN
    BY DEF Init
  <2>5. QED
    BY <2>1, <2>2, <2>3, <2>4, AddressesTyped DEF Init, TypeOK
<1>2. QuorumReachable
  BY FS_EmptySet, LimitTyped DEF Init, QuorumReachable
<1>3. QED
  BY <1>1, <1>2 DEF Init, Inv, NoPartialApprovals

\* Who authorises a call is an address, and so is what last records.
LEMMA LastIsTyped ==
    ASSUME TypeOK, NEW signers \in SUBSET Addresses
    PROVE  /\ ByAdmins(signers) => last' \in [rule : Policies \cup {"none"}, by : SUBSET Addresses]
           /\ \A p \in Policies : ByPolicy(p, signers)
                => last' \in [rule : Policies \cup {"none"}, by : SUBSET Addresses]
<1>1. AdminAuthorisers(signers) \in SUBSET Addresses
  BY DEF AdminAuthorisers, TypeOK
<1>2. ASSUME NEW p \in Policies, ByPolicy(p, signers)
      PROVE  PolicyAuthorisers(p, signers) \in SUBSET Addresses
  <2>1. approval[p].enabled => approval[p].approver \in Addresses
    BY <1>2 DEF ByPolicy, PolicyAuth, ApproverAuth, TypeOK
  <2>2. QED
    BY <1>1, <2>1 DEF PolicyAuthorisers
<1>3. QED
  BY <1>1, <1>2 DEF ByAdmins, ByPolicy

LEMMA NextInv == Inv /\ [Next]_vars => Inv'
<1> SUFFICES ASSUME Inv, [Next]_vars PROVE Inv'
  OBVIOUS
<1> USE DEF Inv
<1> DEFINE Authorised == last' \in [rule : Policies \cup {"none"}, by : SUBSET Addresses]
<1>1. CASE AcceptAdmin
  BY <1>1, AddressesTyped DEF AcceptAdmin, TypeOK, QuorumReachable, NoPartialApprovals
<1>2. CASE UNCHANGED vars
  BY <1>2 DEF vars, TypeOK, QuorumReachable, NoPartialApprovals
<1>3. ASSUME NEW signers \in SUBSET Addresses, NEW a \in Addresses, TransferAdmin(signers, a)
      PROVE  Inv'
  <2>1. Authorised
    BY <1>3, LastIsTyped DEF TransferAdmin
  <2>2. QED
    BY <1>3, <2>1 DEF TransferAdmin, TypeOK, QuorumReachable, NoPartialApprovals
<1>4. ASSUME NEW signers \in SUBSET Addresses, CancelAdminTransfer(signers)
      PROVE  Inv'
  <2>1. Authorised
    BY <1>4, LastIsTyped DEF CancelAdminTransfer
  <2>2. QED
    BY <1>4, <2>1 DEF CancelAdminTransfer, TypeOK, QuorumReachable, NoPartialApprovals
<1>5. ASSUME NEW signers \in SUBSET Addresses, NEW a \in Addresses, AddAdminSigner(signers, a)
      PROVE  Inv'
  <2>1. Authorised
    BY <1>5, LastIsTyped, PoliciesTyped DEF AddAdminSigner
  <2>2. adminSet \in SUBSET Addresses
    BY DEF TypeOK
  <2>3. /\ Cardinality(adminSet) \in Nat
        /\ Cardinality(adminSet') = Cardinality(adminSet) + 1
    BY <1>5, <2>2, SizeOfChange DEF AddAdminSigner
  <2>4. TypeOK'
    BY <1>5, <2>1, <2>2 DEF AddAdminSigner, TypeOK
  <2>5. QuorumReachable'
    BY <1>5, <2>3, LimitTyped DEF AddAdminSigner, QuorumReachable, TypeOK
  <2>6. QED
    BY <1>5, <2>4, <2>5 DEF AddAdminSigner, NoPartialApprovals
<1>6. ASSUME NEW signers \in SUBSET Addresses, NEW a \in Addresses, RemoveAdminSigner(signers, a)
      PROVE  Inv'
  <2>1. Authorised
    BY <1>6, LastIsTyped, PoliciesTyped DEF RemoveAdminSigner
  <2>2. adminSet \in SUBSET Addresses /\ adminSet \ {a} \in SUBSET Addresses
    BY DEF TypeOK
  <2>3. /\ Cardinality(adminSet) \in Nat
        /\ Cardinality(adminSet \ {a}) = Cardinality(adminSet) - 1
        /\ Cardinality(adminSet \ {a}) \in Nat
    BY <1>6, <2>2, SizeOfChange DEF RemoveAdminSigner
  <2>4. /\ LoweredThreshold(adminSet \ {a}) \in 0..MaxAdminSigners
        /\ LoweredThreshold(adminSet \ {a}) <= Cardinality(adminSet \ {a})
    BY <2>3, LimitTyped DEF LoweredThreshold, TypeOK, QuorumReachable
  <2>5. TypeOK'
    BY <1>6, <2>1, <2>2, <2>4 DEF RemoveAdminSigner, TypeOK
  <2>6. QuorumReachable'
    BY <1>6, <2>3, <2>4, LimitTyped DEF RemoveAdminSigner, QuorumReachable
  <2>7. QED
    BY <1>6, <2>5, <2>6 DEF RemoveAdminSigner, NoPartialApprovals
<1>7. ASSUME NEW signers \in SUBSET Addresses, NEW t \in 0 .. MaxAdminSigners + 1,
             SetAdminThreshold(signers, t)
      PROVE  Inv'
  <2>1. Authorised
    BY <1>7, LastIsTyped, PoliciesTyped DEF SetAdminThreshold
  <2>2. Cardinality(adminSet) \in Nat
    BY SizeOfChange, AddressesTyped DEF TypeOK
  <2>3. adminThreshold' \in 0..MaxAdminSigners /\ adminThreshold' <= Cardinality(adminSet)
    BY <1>7, <2>2, LimitTyped DEF SetAdminThreshold, QuorumReachable
  <2>4. QED
    BY <1>7, <2>1, <2>3 DEF SetAdminThreshold, TypeOK, QuorumReachable, NoPartialApprovals
<1>8. ASSUME NEW signers \in SUBSET Addresses, NEW p \in Policies, NEW new \in ApprovalInputs,
             SetPolicyApproval(signers, p, new)
      PROVE  Inv'
  <2>1. Authorised
    BY <1>8, LastIsTyped DEF SetPolicyApproval
  <2>2. new \in [enabled : BOOLEAN, approver : Addresses \cup {NoAddress}]
    BY ApprovalsAreTyped
  <2>3. approval' \in [Policies -> [enabled : BOOLEAN, approver : Addresses \cup {NoAddress}]]
    BY <1>8, <2>2 DEF SetPolicyApproval, TypeOK
  <2>4. QED
    BY <1>8, <2>1, <2>3 DEF SetPolicyApproval, TypeOK, QuorumReachable, NoPartialApprovals
<1>9. ASSUME NEW signers \in SUBSET Addresses, NEW p \in Policies, GuardedCall(signers, p)
      PROVE  Inv'
  <2>1. Authorised
    BY <1>9, LastIsTyped DEF GuardedCall
  <2>2. QED
    BY <1>9, <2>1 DEF GuardedCall, TypeOK, QuorumReachable, NoPartialApprovals
<1>10. ASSUME NEW signers \in SUBSET Addresses, ProposeUpgrade(signers)
       PROVE  Inv'
  <2>1. Authorised
    BY <1>10, LastIsTyped, PoliciesTyped DEF ProposeUpgrade
  <2>2. MultiSig => Cardinality(approvals \cup signers) >= adminThreshold
    <3>1. approvals \cup signers = signers
      BY DEF NoPartialApprovals
    <3>2. QED
      BY <1>10, <3>1 DEF ProposeUpgrade, ByPolicy, PolicyAuth, AdminAuth
  <2>3. approvals' = {} /\ upgrade' \in BOOLEAN
    BY <1>10, <2>2 DEF ProposeUpgrade, NoPartialApprovals
  <2>4. QED
    BY <1>10, <2>1, <2>3 DEF ProposeUpgrade, TypeOK, QuorumReachable, NoPartialApprovals
<1>11. ASSUME NEW signers \in SUBSET Addresses, SettleUpgrade(signers)
       PROVE  Inv'
  <2>1. Authorised
    BY <1>11, LastIsTyped, PoliciesTyped DEF SettleUpgrade
  <2>2. QED
    BY <1>11, <2>1 DEF SettleUpgrade, TypeOK, QuorumReachable, NoPartialApprovals
<1>12. SignerInputs \subseteq SUBSET Addresses
  BY DEF SignerInputs
<1>13. QED
  BY <1>1, <1>2, <1>3, <1>4, <1>5, <1>6, <1>7, <1>8, <1>9, <1>10, <1>11, <1>12 DEF Next

\* Every variable keeps its type.
THEOREM AuthorityTypeCorrect == Spec => []TypeOK
<1>1. Inv => TypeOK
  BY DEF Inv
<1>2. QED
  BY <1>1, InitInv, NextInv, PTL DEF Spec

\* The threshold never exceeds the number of signers: add_admin_signer,
\* remove_admin_signer and set_admin_threshold keep a quorum within reach.
THEOREM QuorumStaysReachable == Spec => []QuorumReachable
<1>1. Inv => QuorumReachable
  BY DEF Inv
<1>2. QED
  BY <1>1, InitInv, NextInv, PTL DEF Spec

\* propose_upgrade never leaves a consent behind.
THEOREM NoConsentIsLeftOver == Spec => []NoPartialApprovals
<1>1. Inv => NoPartialApprovals
  BY DEF Inv
<1>2. QED
  BY <1>1, InitInv, NextInv, PTL DEF Spec

\* A call under an enabled policy is authorised by an address that is no
\* administrator at that moment.
THEOREM DutiesStaySeparate == Spec => SeparationOfDuties
<1> DEFINE Separated == \A p \in Policies : last'.rule = p /\ approval[p].enabled
                          => \E a \in last'.by : ~Conflicts(a)
<1>1. ASSUME NEW signers, NEW p \in Policies, ByPolicy(p, signers)
      PROVE  Separated
  <2>1. last'.rule = p /\ last'.by = PolicyAuthorisers(p, signers)
    BY <1>1 DEF ByPolicy
  <2>2. approval[p].enabled => /\ approval[p].approver \in last'.by
                               /\ ~Conflicts(approval[p].approver)
    BY <1>1, <2>1 DEF ByPolicy, PolicyAuth, ApproverAuth, PolicyAuthorisers
  <2>3. QED
    BY <2>1, <2>2
<1>2. ASSUME last'.rule = "none"
      PROVE  Separated
  BY <1>2, PoliciesTyped
<1>3. Next => Separated \/ last'.rule = "none"
  <2>1. AcceptAdmin => last'.rule = "none"
    BY DEF AcceptAdmin
  <2>2. ASSUME NEW signers, ByAdmins(signers)
        PROVE  last'.rule = "none"
    BY <2>2 DEF ByAdmins
  <2>3. QED
    BY <1>1, <2>1, <2>2, PoliciesTyped
       DEF Next, TransferAdmin, CancelAdminTransfer, AddAdminSigner, RemoveAdminSigner,
           SetAdminThreshold, SetPolicyApproval, GuardedCall, ProposeUpgrade, SettleUpgrade
<1>4. [Next]_vars => [Separated]_vars
  BY <1>2, <1>3
<1>5. QED
  BY <1>4, PTL DEF Spec, SeparationOfDuties

\* With a quorum rule in force, a change of who holds authority is signed by
\* a quorum, or completes a nomination.
THEOREM QuorumKeepsControl == Spec => QuorumControlsAuthority
<1> DEFINE Quorum == Cardinality(last'.by \cap adminSet) >= adminThreshold
           Accepted == /\ pendingAdmin # NoAddress /\ last'.by = {pendingAdmin}
                       /\ admin' = pendingAdmin
           Held == <<adminSet, adminThreshold, approval, pendingAdmin>>
           Controlled == MultiSig /\ Held' # Held => Quorum \/ Accepted
<1>1. ASSUME NEW signers, MultiSig, ByAdmins(signers)
      PROVE  Quorum
  <2>1. last'.by = signers /\ signers \subseteq adminSet /\ Cardinality(signers) >= adminThreshold
    BY <1>1 DEF ByAdmins, AdminAuth, AdminAuthorisers
  <2>2. last'.by \cap adminSet = signers
    BY <2>1
  <2>3. QED
    BY <2>1, <2>2
<1>2. ASSUME Inv, NEW signers \in SUBSET Addresses, MultiSig, ByPolicy("SignerAdmin", signers)
      PROVE  Quorum
  <2>1. /\ signers \subseteq adminSet /\ Cardinality(signers) >= adminThreshold
        /\ last'.by = PolicyAuthorisers("SignerAdmin", signers)
        /\ approval["SignerAdmin"].enabled => approval["SignerAdmin"].approver \notin adminSet
    BY <1>2 DEF ByPolicy, PolicyAuth, AdminAuth, ApproverAuth, Conflicts
  <2>2. last'.by \cap adminSet = signers
    BY <1>2, <2>1 DEF PolicyAuthorisers, AdminAuthorisers
  <2>3. QED
    BY <2>1, <2>2
<1>3. AcceptAdmin => Accepted
  BY DEF AcceptAdmin
<1>4. ASSUME NEW signers, \/ \E p \in Policies : GuardedCall(signers, p)
                          \/ ProposeUpgrade(signers) \/ SettleUpgrade(signers)
      PROVE  Held' = Held
  BY <1>4 DEF GuardedCall, ProposeUpgrade, SettleUpgrade
<1>5. Inv /\ Next => Controlled
  <2> SUFFICES ASSUME Inv, Next, MultiSig, Held' # Held PROVE Quorum \/ Accepted
    OBVIOUS
  <2>1. CASE AcceptAdmin
    BY <1>3, <2>1
  <2>2. ASSUME NEW signers \in SignerInputs,
               \/ \E a \in Addresses : TransferAdmin(signers, a)
               \/ CancelAdminTransfer(signers)
               \/ \E p \in Policies, new \in ApprovalInputs : SetPolicyApproval(signers, p, new)
        PROVE  Quorum
    <3>1. ByAdmins(signers)
      BY <2>2 DEF TransferAdmin, CancelAdminTransfer, SetPolicyApproval
    <3>2. QED
      BY <1>1, <3>1
  <2>3. ASSUME NEW signers \in SignerInputs,
               \/ \E a \in Addresses : AddAdminSigner(signers, a)
               \/ \E a \in Addresses : RemoveAdminSigner(signers, a)
               \/ \E t \in 0 .. MaxAdminSigners + 1 : SetAdminThreshold(signers, t)
        PROVE  Quorum
    <3>1. ByPolicy("SignerAdmin", signers) /\ signers \in SUBSET Addresses
      BY <2>3 DEF AddAdminSigner, RemoveAdminSigner, SetAdminThreshold, SignerInputs
    <3>2. QED
      BY <1>2, <3>1
  <2>4. QED
    BY <1>4, <2>1, <2>2, <2>3 DEF Next
<1>6. Inv /\ [Next]_vars => [Controlled]_vars
  BY <1>5
<1>7. QED
  BY <1>6, InitInv, NextInv, PTL DEF Spec, QuorumControlsAuthority

=============================================================================
