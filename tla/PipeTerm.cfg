SPECIFICATION Spec
CONSTANTS
    End = {socket, other}
    IoEnd = other
    MaxQueue = 1
    MaxHiccups = 1
    MaxActivates = 1
INVARIANTS
    HandshakeAssertions
    NothingDangles
PROPERTIES
    AcknowledgedWhenDrained
    TerminationCompletes
CHECK_DEADLOCK FALSE
