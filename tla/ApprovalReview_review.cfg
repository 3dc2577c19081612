SPECIFICATION FairSpec
CONSTANTS
    Approvals = {1, 2}
    Legacy = {2}
    Operators = {o1, o2}
    v = v
    w = w
    contact = contact
    other = other
    Names = {contact, other}
    Defined = {contact}
    Values = {v, w}
    Blank = Blank
    Proposals <- MCProposals
    Builds <- MCBuilds
    TTL = 1
    SweepLimit = 1
    MaxAsks = 1
    MaxTime = 1
INVARIANTS EventsMatchRows FrozenIsSound PageIsHonest
PROPERTIES OnlyOfferedIsExecuted RefusalIsExplained DeadlineDecides
CHECK_DEADLOCK FALSE
