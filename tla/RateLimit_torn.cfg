\* One request at a time; Redis fails between its two pipelines.
SPECIFICATION Spec
CONSTANTS
    Slots = {r1}
    Keys = {k1, k2}
    Planning = Planning
    Depts = {Planning}
    Dept <- OneDept
    Policies <- OnePolicy
    NoKey = NoKey
    WINDOW_SECONDS = 2
    MaxClock = 3
    MaxRequests = 3
    MaxFaults = 2
INVARIANTS RejectedNotCounted
SYMMETRY Symmetry
CHECK_DEADLOCK FALSE
