SPECIFICATION Spec
CONSTANTS
    Value = {v1, v2}
    MaxItems = 4
INVARIANTS
    PointerOrder
    WholeMessages
    NoLostWakeup
PROPERTIES
    ImplementsChannel
    PublishedIsRead
