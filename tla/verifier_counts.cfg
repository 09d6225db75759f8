\* Two handlers that may meet, a reassignment or a second run.
SPECIFICATION VerifySpec
CONSTANTS
    o1 = o1
    o2 = o2
    Order = {o1, o2}
    orderOf <- Repeated
    Free = Free
    Slot = {1, 2}
    MaxRecords = 3
    MaxTries = 3
    MaxRestarts = 1
    MayFail = FALSE
INVARIANTS
    PassedHasCause
    FailedHasDuplicate
\* The tool has ended.
CHECK_DEADLOCK FALSE
