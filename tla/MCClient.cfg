SPECIFICATION FairSpec
CONSTANTS
    None = None
    e1 = e1
    p1 = p1
    a = a
    b = b
    s1 = s1
    s2 = s2
    Clients = {a, b}
    Connections = {s1, s2}
    Events <- MCEvents
    Prompts <- MCPrompts
    SizeBytes <- MCSizeBytes
    MaxBufferedMessages = 1
    MaxBufferedBytes = 2
    MaxTexts = 1
    MaxDisturbances = 1
INVARIANTS
    OneWayToTheDaemon
    ShownInOrder
PROPERTIES
    StaysConnected
    PromptIsAnswered
CHECK_DEADLOCK FALSE
