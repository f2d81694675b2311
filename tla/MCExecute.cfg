SPECIFICATION ExecuteSpec
CONSTANTS
    NoArguments = NoArguments
    leader = leader
    d1 = d1
    d2 = d2
    Ordinary = "x"
    Words <- MCWords
    Blocked <- MCBlocked
    MaxWords = 2
    Leader = leader
    Descendants = {d1, d2}
    Limit = 2
    MaxChunk = 2
    MaxOutput = 4
INVARIANTS
    ParsedAsMeant
    LimitsHold
PROPERTIES
    CommandReturns
CHECK_DEADLOCK FALSE
