SPECIFICATION FairSpec
CONSTANTS
    None = None
    p1 = p1
    p2 = p2
    note = note
    c1 = c1
    c2 = c2
    Prompts <- MCPrompts
    Events <- MCEvents
    SizeBytes <- MCSizeBytes
    Connections = {c1, c2}
    MaxBufferedMessages = 2
    MaxBufferedBytes = 2
INVARIANTS
    NoOvertaking
    BufferAccounted
    NoPromptLost
    ReplyReachesItsPrompt
PROPERTIES
    LosesOldestOnly
    ImplementsQuestions
    PromptSettles
CHECK_DEADLOCK FALSE
