SPECIFICATION BoxSpec
CONSTANTS
    SIZE_MAX = 31
    SEALBYTES = 3
    MaxMessage = 28
    PublicKeyBytes = 2
    Calls <- MCCalls
INVARIANTS
    TypeOK
    NeverAborts
    PreconditionsDecide
    WrittenAgrees
    NothingKept
    PlaintextZeroed
