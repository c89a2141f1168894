SPECIFICATION Spec
CONSTANTS
    w1 = w1
    w2 = w2
    p1 = p1
    p2 = p2
    Wallets = {w1}
    Pairs = {p1}
    Scores = {10, 90}
    Boosts = {90}
    Buffers = {0, 1}
    MaxDepth = 2
    MaxTracked = 2
    FloorPolicies <- MCFloorPolicies
    Ops = {"buffer", "attested", "dispute", "contagion", "clearScore", "clearHistory", "overrideFloor", "pause", "freeze", "pausePair", "epoch"}
    MaxTime = 1
    MaxCount = 2
INVARIANTS LiveFollowsHistory
PROPERTIES PauseAdmitsNoNewScore
