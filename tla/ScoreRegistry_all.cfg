SPECIFICATION Spec
CONSTANTS
    w1 = w1
    w2 = w2
    p1 = p1
    p2 = p2
    Wallets = {w1, w2}
    Pairs = {p1}
    Scores = {10, 90}
    Boosts = {90}
    Buffers = {0, 1}
    MaxDepth = 1
    MaxTracked = 1
    FloorPolicies = {}
    Ops = {"buffer", "attested", "dispute", "contagion", "clearScore", "clearHistory"}
    MaxTime = 1
    MaxCount = 2
SYMMETRY MCSymmetry
INVARIANTS TypeOK RegisteredPairsAreLive IndexedAreLive PairCountIsSum
