SPECIFICATION FairSpec
CONSTANTS
    ReconnectMin = 1
    ReconnectMax = 8
    CheckSeconds = 4
    MaxTroubles = 4
    MaxFailures = 5
INVARIANTS TypeOK SilenceBounded
PROPERTIES BackedOff Restored
CHECK_DEADLOCK FALSE
