SPECIFICATION Spec
CONSTANTS
    Signers = {s1, s2}
    ServiceAccount = account
    MaxServiceSigners = 2
    Keys = {k1, k2}
    NoKey = NoKey
    Slots = {"service", "aggregate"}
    Overlaps = {0, 1}
    Ages = {0, 1}
    Silences = {1}
    MaxTime = 3
CONSTRAINT MCFocus
SYMMETRY MCSymmetry
INVARIANTS TypeOK SignersAreKnown 
PROPERTIES HandoverHasNoGap 
