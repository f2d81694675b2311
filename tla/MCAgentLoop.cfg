SPECIFICATION FairSpec
CONSTANTS
    None = None
    Ended = Ended
    Sessions <- MCSessions
    InactivityTimeout = 1
    MaxMessages = 2
    MaxTime = 2
INVARIANTS
    OneInteractiveSession
    MessagesInOrder
    IdleIsIdle
PROPERTIES
    MessageIsHandled
CHECK_DEADLOCK FALSE
