CONSTANTS
    f1 = f1
    f2 = f2
    a = a
    p = p
    q = q
    Empty = Empty
    NoFile = NoFile
    Undecodable = Undecodable
    Unwritable = Unwritable
    Low = {f1}
    Deep = {f2}
    Places = {p, q}
    Namings <- Regular
    Contents = {a}
    Settle = 1
    MaxClock = 2
    MaxEdits = 1
    MaxLost = 1
    MaxFaults = 0
    MaxCrashes = 0
SPECIFICATION FairSpec
CHECK_DEADLOCK FALSE
PROPERTY RecordedWasAnswered
