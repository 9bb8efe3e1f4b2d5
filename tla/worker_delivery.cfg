CONSTANTS
    Producers = {p1, p2}
    Lens = {1, 2}
    MaxPushes = 2
    BufferSize = 4
    Threshold = 100
    LinearGrowth = 4
    p1 = p1
    p2 = p2
SPECIFICATION FairSpec
CHECK_DEADLOCK FALSE
PROPERTY BufferedDataReachesCallback
