\* A sick version that migrates the database.
SPECIFICATION Spec
CONSTANTS
    LastVersion = 2
    Rev <- MCRevTwo
    Sick = {2}
    BACKUP_RETENTION_DAYS = 0
    MaxWrites = 2
    MaxDumps = 1
    MaxScripts = 2
    MaxFaults = 0
PROPERTY RollbackReverts
CHECK_DEADLOCK FALSE
