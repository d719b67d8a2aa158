SPECIFICATION Spec
CONSTANTS
    MaxRecords = 2
    MaxAttempts = 2
    MaxFaults = 2
    RowNamesAttempt = TRUE
INVARIANTS
    OneDispatcher
    RunsInOrder
    QueueMovesWhole
PROPERTIES
    UnitSettles
    VerifiedSettles
CHECK_DEADLOCK FALSE
