CONSTANTS
    s1 = s1
    s2 = s2
    Ids = {s1, s2}
    CronTriggers = {"odd", "never"}
    OnceTriggers = {"once"}
    Occurrences <- MCOccurrences
    At <- MCAt
    None = None
    NoRow = NoRow
    MaxTime = 3
    MaxEdits = 2
    MaxStops = 1
    MaxLockFailures = 1
SPECIFICATION FairSpec
INVARIANTS ArmedForNextInstant OutcomeAccounted
PROPERTIES ImplementsAlarm DueIsServed OutcomeResolved
