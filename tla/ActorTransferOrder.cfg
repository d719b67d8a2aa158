SPECIFICATION Spec
CONSTANTS
    MaxPackets = 2
    MaxMoves = 2
INVARIANTS
    ParkedRunFirst
CHECK_DEADLOCK FALSE
