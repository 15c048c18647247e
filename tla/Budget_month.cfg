\* A process that was started in an earlier month.
SPECIFICATION Spec
CONSTANTS
    Requests = {r1, r2}
    r1 = r1
    r2 = r2
    Upserts = {u1, u2}
    u1 = u1
    u2 = u2
    None = None
    EmptyList = EmptyList
    Rates = {5}
    Lists = {EmptyList}
    Limits = {0, 3}
    Pricing <- MCPricing
    Models <- MCModels
    Usages <- MCUsages
    RequestWords = 10
    ResponseWords = 2
    LastMonth = 2
    MaxRequests = 3
    MaxUpserts = 2
    MaxRestarts = 1
SYMMETRY Symmetric
INVARIANT MonthIsSeen
CHECK_DEADLOCK FALSE
