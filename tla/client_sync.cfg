CONSTANTS
    f1 = f1
    f2 = f2
    a = a
    b = b
    p = p
    q = q
    Empty = Empty
    NoFile = NoFile
    Undecodable = Undecodable
    Unwritable = Unwritable
    Low = {f1}
    Deep = {f2}
    Places = {p}
    Namings <- Awkward
    Contents = {a, b}
    Settle = 1
    MaxClock = 2
    MaxEdits = 1
    MaxLost = 1
    MaxFaults = 1
    MaxCrashes = 1
SPECIFICATION FairSpec
CHECK_DEADLOCK FALSE
INVARIANTS TypeOK MarkedIsStored
PROPERTIES ConfirmedIsNotSentAgain RestartForgetsNothing ServerCatchesUp
