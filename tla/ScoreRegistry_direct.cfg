SPECIFICATION Spec
CONSTANTS
    w1 = w1
    w2 = w2
    p1 = p1
    p2 = p2
    Wallets = {w1, w2}
    Pairs = {p1}
    Scores = {10, 50, 90}
    Boosts = {90}
    Buffers = {0}
    MaxDepth = 2
    MaxTracked = 2
    FloorPolicies <- MCFloorPolicies
    Ops = {"clearScore"}
    MaxTime = 0
    MaxCount = 4
SYMMETRY MCSymmetry
INVARIANTS HistogramExact 
PROPERTIES FloorHoldsAfterPeak
