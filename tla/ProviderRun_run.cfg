\* Two tool calls and four steps: enough for a third identical call.
SPECIFICATION FairSpec
CONSTANTS
    Calls = {"c1", "c2"}
    MaxSteps = 4
INVARIANTS RequestsAreSound OneJobEvent AbandonedRunIsHarmless
PROPERTIES InterruptDecides RunIsOver
CHECK_DEADLOCK FALSE
