\* One request: a chat, a streamed one, or an upload that is not JSON.
SPECIFICATION Spec
CONSTANTS
    Requests = {r1}
    k1 = k1
    gpt = gpt
    mini = mini
    StaffKeys = {k1}
    Models = {gpt, mini}
    NoModel = NoModel
    Inputs <- Forwardable
    Policies <- AllowAll
    monthly_cost_limit_cents = 1
    Costs <- OneCent
    SCRUBBER_FAILURE_MODE = "fail_closed"
    MaxAdmin = 0
INVARIANTS EveryRequestRecorded OnlyForwardedRecorded StatusRecorded NothingLeavesRaw
CHECK_DEADLOCK FALSE
