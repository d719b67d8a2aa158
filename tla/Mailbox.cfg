SPECIFICATION Spec
CONSTANTS
    Sender = {s1, s2}
    MaxSends = 4
INVARIANTS
    OneHandler
    NoStrandedCommand
PROPERTY CommandsAreReceived
CHECK_DEADLOCK FALSE
