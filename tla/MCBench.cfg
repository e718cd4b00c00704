SPECIFICATION FairBenchSpec
CONSTANTS
    MaxFd = 6
    DataLen = 4
    PipeSize = 2
    MaxTick = 2
    MaxClock = 5
    Programs <- MCPrograms
INVARIANTS
    TypeOK
    NothingLeftBehind
    ChildStreams
    SuccessIsWhole
    HeapBalanced
    EveryCallCounted
    FailuresCounted
PROPERTIES
    BenchEnds
CHECK_DEADLOCK FALSE
