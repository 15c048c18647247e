\* Two requests of seven kinds, two administrative changes, a limit of one cent.
SPECIFICATION FairSpec
CONSTANTS
    Requests = {r1, r2}
    k1 = k1
    gpt = gpt
    mini = mini
    StaffKeys = {k1}
    Models = {gpt, mini}
    NoModel = NoModel
    Inputs <- SomeInputs
    Policies <- AllowSome
    monthly_cost_limit_cents = 1
    Costs <- UpToTwoCents
    SCRUBBER_FAILURE_MODE = "fail_closed"
    MaxAdmin = 2
INVARIANTS TypeOK ForwardedWasAllowed AnsweredIsLogged BudgetOvershoot
PROPERTIES ForwardedIsLogged RequestsEnd
CHECK_DEADLOCK FALSE
