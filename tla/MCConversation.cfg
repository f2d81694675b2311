SPECIFICATION ConversationFairSpec
CONSTANTS
    MaxIterations = 5
    KeepWindow = 3
    ContextLimit = 16
    ToolTokens = 2
    RequestOverhead = 2
    ResultSizes <- MCResultSizes
    SummarySizes <- MCSummarySizes
    MaxCalls = 2
    MaxUserMessages = 2
INVARIANTS
    ConversationTypeOK
    EstimateIsExact
    CallsAreAnswered
    CeilingRespected
PROPERTIES
    CurrentExchangeKept
    TurnEnds
CHECK_DEADLOCK FALSE
