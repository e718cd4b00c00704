SPECIFICATION BenchSpec
CONSTANTS
    MaxFd = 6
    DataLen = 4
    PipeSize = 2
    MaxTick = 2
    MaxClock = 5
    Programs <- LimitedPrograms
INVARIANT
    ResultPopulated
CHECK_DEADLOCK FALSE
