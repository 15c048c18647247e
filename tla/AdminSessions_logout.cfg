\* One session, logged out; Redis fails once or restarts once.
SPECIFICATION Spec
CONSTANTS
    root = root
    ADMIN_EMAIL = root
    Admins = {root}
    Calls = {c1}
    SESSION_TIME = 2
    TEMP_TIME = 1
    MaxClock = 3
    MaxSessions = 1
    MaxSecrets = 0
    MaxFaults = 1
INVARIANTS LoggedOutIsRefused NeverKnownAgain
SYMMETRY Symmetry
CHECK_DEADLOCK FALSE
