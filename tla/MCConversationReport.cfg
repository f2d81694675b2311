SPECIFICATION ConversationSpec
CONSTANTS
    MaxIterations = 4
    KeepWindow = 3
    ContextLimit = 16
    ToolTokens = 2
    RequestOverhead = 2
    ResultSizes <- MCResultSizes
    SummarySizes <- MCSummarySizes
    MaxCalls = 2
    MaxUserMessages = 2
INVARIANTS
    FailedRunIsReported
CHECK_DEADLOCK FALSE
