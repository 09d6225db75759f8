\* Two slots for three records, failing handlers, a restart or reassignment.
SPECIFICATION StreamSpec
CONSTANTS
    Free = Free
    Unreadable = Unreadable
    Slot = {1, 2}
    MaxRecords = 3
    MaxCopies = 1
    MaxTries = 2
    MaxRestarts = 1
    MayFail = TRUE
INVARIANTS
    StreamInv
    CommitNamesHandled
    LossHasCause
    TickLossHasCause
PROPERTIES
    EveryRecordEnds
    ImplementsFeed
\* The system stops when the bounded input is consumed.
CHECK_DEADLOCK FALSE
