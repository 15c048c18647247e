\* Two requests of one key at once; Redis never fails.
SPECIFICATION Spec
CONSTANTS
    Slots = {r1, r2}
    Keys = {k1, k2}
    Planning = Planning
    Depts = {Planning}
    Dept <- OneDept
    Policies <- OnePolicy
    NoKey = NoKey
    WINDOW_SECONDS = 2
    MaxClock = 3
    MaxRequests = 3
    MaxFaults = 0
INVARIANTS RedisExact
SYMMETRY Symmetry
CHECK_DEADLOCK FALSE
