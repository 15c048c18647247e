\* Two requests at once, two keys of one department.
SPECIFICATION Spec
CONSTANTS
    Slots = {r1, r2}
    Keys = {k1, k2}
    Planning = Planning
    Depts = {Planning}
    Dept <- OneDept
    Policies <- TwoPolicies
    NoKey = NoKey
    WINDOW_SECONDS = 2
    MaxClock = 3
    MaxRequests = 3
    MaxFaults = 2
INVARIANTS TypeOK RedisSlack CountedIffAdmitted
PROPERTIES RefinesLimiter
SYMMETRY Symmetry
CHECK_DEADLOCK FALSE
