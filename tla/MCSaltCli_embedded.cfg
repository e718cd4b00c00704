SPECIFICATION FairProgramSpec
CONSTANTS
    SIZE_MAX = 65535
    SEALBYTES = 48
    KeyMax = 1
    TextMax = 2
    StreamBound = 3
    Embedded = TRUE
    KeyDocs <- MCKeyDocs
    Requests <- EmbeddedRequests
    MaxCalls = 2
    MaxSignals = 1
INVARIANTS
    HandlersRestored
    Scrubbed
    SignalStatusJustified
    ProbePutsBack
    BrokenStreamsStayBroken
PROPERTIES
    ImplementsContract
    CallEnds
    FailedReadEnds
