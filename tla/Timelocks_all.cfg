SPECIFICATION Spec
CONSTANTS
    h1 = h1
    Hashes = {h1}
    InitialHash = InitialHash
    Inputs <- MCInputs
    ProposalKeys = {"cooldown", "staleness"}
    Bounds <- MCBounds
    Defaults <- MCDefaults
    ParamDelay = 1
    CleanupBuffer = 1
    MaxPending = 1
    MaxProposals = 2
    MaxOpen = 2
    MaxReported = 1
    MaxTime = 3
INVARIANTS TypeOK PendingMatchesRecords VetoBeforeExecute
PROPERTIES SettledIsFinal AnnouncedInAdvance ProposalsKeepOrder
