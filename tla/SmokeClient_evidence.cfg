SPECIFICATION Spec
CONSTANTS
    Cases = {"live"}
    Actions = {"case", "find"}
    MaxPolls = 2
    MaxAttempts = 2
INVARIANT RejectedPollReplacesNothing
CHECK_DEADLOCK FALSE
