SPECIFICATION FairSpec
CONSTANTS
    Calls = {c1}
    NoCause = NoCause
    MaxCalls = 1
    Attempts = 2
    Faults = {"answer", "bridge", "originate", "lost_answer", "hangup", "db", "events"}
INVARIANTS TypeOK LegsReleased NoTalkAfterEnd
PROPERTIES DialsForWaitingCaller KeepsContract TornDown NobodyStranded DialEnds TalkJournalled
CHECK_DEADLOCK FALSE
