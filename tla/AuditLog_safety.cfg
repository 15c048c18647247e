\* Two overlapping calls, three rows, two faults.  Requests and faults stop after
\* BusyDays; the clock and the retention loop go on.
SPECIFICATION FairSpec
CONSTANTS
    Loggers = {l1, l2}
    Contents = {c1}
    NoHash = NoHash
    LOG_RETENTION_DAYS = 1
    MaxRows = 3
    MaxDay = 5
    BusyDays = 3
    MaxFaults = 2
INVARIANTS TypeOK LinksPointBack SerialChain
PROPERTIES RefinesLedger RowsExpire
