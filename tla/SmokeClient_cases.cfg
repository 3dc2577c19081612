SPECIFICATION Spec
CONSTANTS
    Cases = {"live", "body_complete", "body_incomplete", "webhook_body", "malformed", "duplicate", "conflict"}
    Actions = {"case", "find"}
    MaxPolls = 2
    MaxAttempts = 2
INVARIANTS ReportIsHonest ViewIsWhole
CHECK_DEADLOCK FALSE
