SPECIFICATION Spec
CONSTANTS
    None = None
    Torn = Torn
    g = g
    w = w
    g1 = g1
    g2 = g2
    w1 = w1
    w2 = w2
    P = P
    Q = Q
    R = R
    c1 = c1
    c2 = c2
    Tools = {g, w}
    Specs = {g1, g2, w1, w2}
    ProviderNames = {P, Q, R}
    tool <- MCTool
    operations <- MCOperations
    providerName <- MCProviderName
    SeededSpec = g1
    Calls = {c1}
    MaxRegistrations = 4
    MaxRestarts = 2
INVARIANTS
    IndexesAgree
    RestartSucceeds
    RunsCheckedSpec
