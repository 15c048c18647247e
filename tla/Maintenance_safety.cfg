\* Three versions, two scripts, two faults.
SPECIFICATION FairSpec
CONSTANTS
    LastVersion = 3
    Rev <- MCRev
    Sick = {2}
    BACKUP_RETENTION_DAYS = 0
    MaxWrites = 1
    MaxDumps = 2
    MaxScripts = 2
    MaxFaults = 2
INVARIANTS TypeOK ServesItsSchema NextIdIsFreeUnlessOverwritten
PROPERTIES RollbackWorksUnlessMigrated MigrationHasBackup ScriptsEnd
CHECK_DEADLOCK FALSE
