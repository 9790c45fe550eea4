SPECIFICATION Spec
CONSTANTS
    Calls = {c1}
    NoCause = NoCause
    MaxCalls = 1
    Attempts = 2
    Faults = {}
PROPERTIES NoCallAfterEnd
CHECK_DEADLOCK FALSE
