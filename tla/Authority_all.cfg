SPECIFICATION Spec
CONSTANTS
    Addresses = {a1, a2, a3}
    NoAddress = NoAddress
    InitialAdmin = a1
    MaxAdminSigners = 2
    Policies = {"SignerAdmin", "UpgradeGovernance", "EmergencyPause"}
SYMMETRY MCSymmetry
INVARIANTS TypeOK QuorumReachable 
PROPERTIES SeparationOfDuties 
