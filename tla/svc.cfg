CONSTANTS
    f1 = f1
    f2 = f2
    a = a
    b = b
    Names = {f1, f2}
    Contents = {a, b}
    Size <- MCSize
    MaxRequests = 4
    MaxCrashes = 1
    MaxFaults = 1
    MaxClock = 1
SPECIFICATION Spec
SYMMETRY Symmetry
CHECK_DEADLOCK FALSE
INVARIANTS TypeOK OneReply ListedFilesExist RestartIsAtomic
           DeletionsHold TransfersWhole
PROPERTIES ImplementsStore
