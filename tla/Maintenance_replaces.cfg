\* A dump is replayed over rows.
SPECIFICATION Spec
CONSTANTS
    LastVersion = 3
    Rev <- MCRev
    Sick = {2}
    BACKUP_RETENTION_DAYS = 0
    MaxWrites = 2
    MaxDumps = 1
    MaxScripts = 2
    MaxFaults = 2
PROPERTY RestoreReplaces
CHECK_DEADLOCK FALSE
