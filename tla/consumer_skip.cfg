\* One slot, three records, nothing fails.
SPECIFICATION Spec
CONSTANTS
    Free = Free
    Slot = {1}
    MaxRecords = 3
    MaxTries = 2
    MaxRestarts = 0
    MayFail = FALSE
PROPERTIES
    SkippedIsRetried
\* The system stops when the bounded input is consumed.
CHECK_DEADLOCK FALSE
