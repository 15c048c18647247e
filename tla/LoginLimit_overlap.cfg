\* Two sign-ins at once; nothing fails.
SPECIFICATION Spec
CONSTANTS
    Slots = {r1, r2}
    LOGIN_RATE_LIMIT = 1
    LOGIN_RATE_WINDOW = 2
    MaxClock = 2
    MaxAttempts = 2
    MaxFaults = 0
    MaxRestarts = 0
INVARIANTS LoginExact
SYMMETRY Symmetry
CHECK_DEADLOCK FALSE
