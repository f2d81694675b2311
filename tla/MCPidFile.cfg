SPECIFICATION PidFileFairSpec
CONSTANTS
    Processes = {p1, p2, p3}
    Nothing = Nothing
PROPERTIES
    LaunchesInTurn
    LaunchEnds
CHECK_DEADLOCK FALSE
