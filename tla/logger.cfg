CONSTANTS
    c1 = c1
    c2 = c2
    Callers = {c1, c2}
    ThreadCount = 1
    Lens = {2}
    ReadSize = 1
    MaxCalls = 1
    MaxCrashes = 1
    MaxFaults = 1
SPECIFICATION FairSpec
CHECK_DEADLOCK FALSE
INVARIANTS TypeOK OneLoggerPerName BackedUpFirst BackedUpOnce
PROPERTIES CallsReturn BackupArrives
