CONSTANTS
    Paths <- MCPaths
    Lens = {1, 2}
    MaxSize = 2
    Instants <- MCInstants
    MaxBatches = 3
    MaxStops = 1
    MaxFaults = 1
SPECIFICATION Spec
CHECK_DEADLOCK FALSE
INVARIANTS TypeOK PrefixSurvives ReturnedSurvives RollsBySize
PROPERTY ConstructorReturns
