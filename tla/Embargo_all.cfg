SPECIFICATION Spec
CONSTANTS
    w1 = w1
    w2 = w2
    w3 = w3
    Wallets = {w1, w2, w3}
    Threshold = 1
    ExtendTo = 3
    MaxEmbargoed = 2
    MaxTime = 5
    MaxCount = 3
SYMMETRY MCSymmetry
INVARIANTS TypeOK ActiveAreIndexed 
