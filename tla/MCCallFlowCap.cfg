SPECIFICATION Spec
CONSTANTS
    Calls = {c1, c2}
    NoCause = NoCause
    MaxCalls = 1
    Attempts = 1
    Faults = {}
SYMMETRY Symmetry
INVARIANTS CapKept
CHECK_DEADLOCK FALSE
