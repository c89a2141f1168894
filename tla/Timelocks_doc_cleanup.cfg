SPECIFICATION Spec
CONSTANTS
    h1 = h1
    Hashes = {h1}
    InitialHash = InitialHash
    Inputs <- MCInputs
    ProposalKeys = {"cooldown"}
    Bounds <- MCBounds
    Defaults <- MCDefaults
    ParamDelay = 1
    CleanupBuffer = 1
    MaxPending = 1
    MaxProposals = 1
    MaxOpen = 1
    MaxReported = 1
    MaxTime = 4
INVARIANTS ReportedAreGone
