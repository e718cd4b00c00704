SPECIFICATION OutputSpec
CONSTANTS
    Unset = Unset
    FieldSize = 7
    KeySize = 12
    KeyIdSize = 4
    Inputs <- MCInputs
    Sealed <- MCSealed
INVARIANT StrictWhitespace
CHECK_DEADLOCK FALSE
