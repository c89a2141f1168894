SPECIFICATION FairSpec
CONSTANTS
    t1 = t1
    t2 = t2
    NoToken = NoToken
    N = 2
    Tokens = {t1, t2}
    Amounts = {1}
    Schedules <- MCSchedules
    MaxFee = 2
    MaxTiers = 2
    Delays = {1}
    Windows = {1}
    TokenRule = "all"
    MaxVolume = 1
    MaxHeld = 2
    MaxTime = 2
INVARIANTS TypeOK LiabilityIsSum   FeeIsHighestTierMet
 
