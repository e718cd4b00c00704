SPECIFICATION OutputSpec
CONSTANTS
    Unset = Unset
    FieldSize = 7
    KeySize = 12
    KeyIdSize = 4
    Inputs <- MCInputs
    Sealed <- MCSealed
INVARIANTS
    TypeOK
    AcceptsTheGrammar
    FieldsAsWritten
    RejectedNamesNobody
    KeyIdSurvives
    RefusedWhole
CHECK_DEADLOCK FALSE
