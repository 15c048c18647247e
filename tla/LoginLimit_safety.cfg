\* Two calls at once, four in all, one failure, one restart.
SPECIFICATION Spec
CONSTANTS
    Slots = {r1, r2}
    LOGIN_RATE_LIMIT = 1
    LOGIN_RATE_WINDOW = 2
    MaxClock = 2
    MaxAttempts = 4
    MaxFaults = 1
    MaxRestarts = 1
INVARIANTS TypeOK LoginSlack RefusedIsNotCounted
SYMMETRY Symmetry
CHECK_DEADLOCK FALSE
