\* An upgrade whose pg_dump fails.
SPECIFICATION Spec
CONSTANTS
    LastVersion = 3
    Rev <- MCRev
    Sick = {2}
    BACKUP_RETENTION_DAYS = 0
    MaxWrites = 2
    MaxDumps = 1
    MaxScripts = 2
    MaxFaults = 2
PROPERTY MigrationAlwaysHasBackup
CHECK_DEADLOCK FALSE
