SPECIFICATION Spec
CONSTANTS
    DEFAULT_PING_RATE = 1
    Rates = {0, 2, 3}
    Timeouts = {2, 3}
    MaxOptions = 3
INVARIANTS
    ResetExplained
