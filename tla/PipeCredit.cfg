SPECIFICATION Spec
CONSTANTS
    Size = {1, 3}
    ControlSize = {1, 3}
    Hwm = 3
    MaxWrites = 2
    MaxControls = 1
    MaxFlows = 2
    MaxReleases = 1
    MaxHiccups = 1
INVARIANTS
    CreditIsExact
    FlowConverges
PROPERTY
    RefusedIsActivated
CHECK_DEADLOCK FALSE
