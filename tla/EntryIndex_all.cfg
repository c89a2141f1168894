SPECIFICATION FairSpec
CONSTANTS
    k1 = k1
    k2 = k2
    k3 = k3
    Keys = {k1, k2}
    Threshold = 2
    ExtendTo = 3
    MinTtl = 1
    MaxTracked = 2
    MaxPage = 2
    Params <- MCParams
    MaxFunds = 1
    MaxSeq = 4
INVARIANTS TypeOK QueueSorted QueueDistinct ExpiringIsComplete
PROPERTIES PaidOncePerDecay DueIsRenewed
