SPECIFICATION ArgsSpec
CONSTANTS
    MaxWords = 4
    Argvs <- MCArgvs
    Later <- MCLater
INVARIANTS
    TypeOK
    DecidedByArgv
    ReadAsWritten
    HelpOnlyWhenWellFormed
    RefusalExplained
