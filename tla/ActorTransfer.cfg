SPECIFICATION Spec
CONSTANTS
    MaxPackets = 2
    MaxMoves = 2
INVARIANTS
    KeptOnce
    
PROPERTIES
    SealIsTight
    EverythingSettles
CHECK_DEADLOCK FALSE
