SPECIFICATION Spec
CONSTANTS
    Receiver = {r}
    Puller = {}
    Caller = {c}
    PollRate = 2
    MaxMessages = 1
    MaxReplies = 0
    MaxCalls = 1
    MaxSignals = 1
    ReceiverShares = TRUE
PROPERTY MessagesAreReceived
CHECK_DEADLOCK FALSE
