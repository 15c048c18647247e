\* Two overlapping calls, no retention, nobody touches the table.
SPECIFICATION Spec
CONSTANTS
    Loggers = {l1, l2}
    Contents = {c1, c2}
    NoHash = NoHash
    LOG_RETENTION_DAYS = 0
    MaxRows = 3
    MaxDay = 0
    BusyDays = 0
    MaxFaults = 0
INVARIANTS UntamperedVerifies
SYMMETRY Symmetry
