SPECIFICATION GateSpec
CONSTANTS
    a = a
    b = b
    read = read
    send = send
    pay = pay
    wipe = wipe
    Sessions = {a, b}
    Ops = {read, send, pay, wipe}
    ToolOps = {send, pay}
    Policy <- MCPolicy
    ReceiptWindow = 1
    MaxTime = 2
    MaxCalls = 3
    Absent = Absent
INVARIANTS
    LimitUpToPendingApprovals
    AllowedIsCounted
    ApprovedByUser
SYMMETRY MCSymmetry
CHECK_DEADLOCK FALSE
