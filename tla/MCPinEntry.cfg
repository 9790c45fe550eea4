SPECIFICATION FairSpec
CONSTANTS
    Digits = {"1", "2"}
    OtherKeys = {"A"}
    Codes <- MCCodes
    Length = 2
    Attempts = 2
    DigitTimeout = 2
    TotalTimeout = 3
    PlayMax = 1
    MaxKeys = 3
INVARIANTS TypeOK Understood HeldBounded
PROPERTIES CodeAccepted Answered
CHECK_DEADLOCK FALSE
