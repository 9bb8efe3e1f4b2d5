CONSTANTS
    Producers = {p1, p2}
    Lens = {1, 3, 4}
    MaxPushes = 2
    BufferSize = 2
    Threshold = 5
    LinearGrowth = 4
    p1 = p1
    p2 = p2
SPECIFICATION FairSpec
CHECK_DEADLOCK FALSE
INVARIANTS TypeOK CapacityEnough
PROPERTIES WaitersAreNotNotified Implements CallsReturn
