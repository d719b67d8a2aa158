SPECIFICATION Spec
CONSTANTS
    Receiver = {r}
    Puller = {p}
    Caller = {c}
    PollRate = 2
    MaxMessages = 3
    MaxReplies = 2
    MaxCalls = 2
    MaxSignals = 1
    ReceiverShares = FALSE
INVARIANTS
    NobodySleepsOverCommands
    PullerSeesAppliedReply
PROPERTIES
    MessagesAreReceived
    RepliesArePulled
CHECK_DEADLOCK FALSE
