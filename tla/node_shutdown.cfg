\* The defaults: nothing is injected and nothing fails but, perhaps, a server.
SPECIFICATION Spec
CONSTANTS
    Caller = {c1}
    Setting <- Defaults
    Profile <- NoProfile
    Roll = {0, 99}
    MaxCalls = 1
INVARIANTS
    StopsWithoutPanic
\* The process ends, or has served all the calls there are.
CHECK_DEADLOCK FALSE
