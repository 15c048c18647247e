\* One call at a time; the daily retention pass deletes old rows.
SPECIFICATION Spec
CONSTANTS
    Loggers = {l1}
    Contents = {c1, c2}
    NoHash = NoHash
    LOG_RETENTION_DAYS = 1
    MaxRows = 3
    MaxDay = 3
    BusyDays = 3
    MaxFaults = 0
INVARIANTS UntamperedVerifies
SYMMETRY Symmetry
