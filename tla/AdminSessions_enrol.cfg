\* One administrator sets up TOTP.
SPECIFICATION Spec
CONSTANTS
    root = root
    ADMIN_EMAIL = root
    Admins = {root}
    Calls = {c1}
    SESSION_TIME = 2
    TEMP_TIME = 1
    MaxClock = 3
    MaxSessions = 1
    MaxSecrets = 1
    MaxFaults = 0
INVARIANTS EnrolledIsConfirmed
SYMMETRY Symmetry
CHECK_DEADLOCK FALSE
