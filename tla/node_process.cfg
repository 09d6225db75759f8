\* Two calls at a time, three in all, under settings and profiles of every kind.
SPECIFICATION Spec
CONSTANTS
    Caller = {c1, c2}
    Setting <- Settings
    Profile <- Profiles
    Roll = {0, 40, 99}
    MaxCalls = 3
INVARIANTS
    NodeInv
    OptIn
    ProperRangesAreSafe
    StoppedIsNotHealthy
    WindowEnds
PROPERTIES
    StopGetsThrough
\* The process ends, or has served all the calls there are.
CHECK_DEADLOCK FALSE
