SPECIFICATION Spec
CONSTANTS
    Submitter = {s1, s2}
    MaxOutstanding = 2
    Window = 1
    MaxId = 4
INVARIANTS
    AccountsAreExact
    NoLostWake
PROPERTIES
    TokensLeaveForCause
    TokensBecomeReady
CHECK_DEADLOCK FALSE
