\* Two administrators, two sign-ins at once, two sessions, two secrets, one fault.
SPECIFICATION Spec
CONSTANTS
    root = root
    ADMIN_EMAIL = root
    Admins = {root, ann}
    Calls = {c1, c2}
    SESSION_TIME = 2
    TEMP_TIME = 1
    MaxClock = 3
    MaxSessions = 2
    MaxSecrets = 2
    MaxFaults = 1
INVARIANTS TypeOK RevokedStaysRevoked SessionIsKept
SYMMETRY Symmetry
CHECK_DEADLOCK FALSE
