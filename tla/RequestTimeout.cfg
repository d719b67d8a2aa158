SPECIFICATION Spec
CONSTANTS
    Task = {t1, t2}
    Timeouts = {1, 4}
    IdleWait = 2
    MaxTime = 6
INVARIANTS
    NeverOversleeps
    HandlersAreSafe
PROPERTIES
    UserdataGivenOnce
    EveryoneIsServed
CHECK_DEADLOCK FALSE
