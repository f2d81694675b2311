SPECIFICATION FairSpec
CONSTANTS
    None = None
    Calls = {a, b}
    MAX_ATTEMPTS = 2
    MaxGrants = 3
INVARIANTS
    RefreshTokenKept
    RetryUsesNewToken
PROPERTIES
    CallSettles
CHECK_DEADLOCK FALSE
