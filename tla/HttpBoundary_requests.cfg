SPECIFICATION FairSpec
CONSTANTS
    Requests = {1, 2}
    A = A
    kA = kA
    kA2 = kA2
    kOp = kOp
    Tenants = {A}
    Keys = {kA, kA2, kOp}
    Holder <- MCHolder
    Principal <- MCPrincipal
    Kinds <- MCKinds
    Limit <- MCLimit
    Window = 1
    MaxTime = 1
INVARIANTS BodyStaysBounded JobIsEntitled RequestIsTraced
PROPERTIES EveryRequestCompletes
CHECK_DEADLOCK FALSE
