SPECIFICATION TextSpec
CONSTANTS
    Bytes <- MCBytes
    Wild = wild
    None = none
    Lengths <- MCLengths
    Sizes <- MCSizes
    PageSize = 3
    Digits <- MCDigits
    Written <- MCWritten
    MaxTokens = 4
INVARIANTS
    FirstMatch
    FindsSignature
    SearchesAgree
PROPERTIES
    Terminates
CHECK_DEADLOCK FALSE
