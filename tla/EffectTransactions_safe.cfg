SPECIFICATION Spec
CONSTANTS
    Jobs = {j1}
    MaxAttempts = 2
    Tools = {"create_case", "update_case_fields", "flag_for_review", "find_customer"}
    Requests = {r1, r2}
    Sweepers = {s1}
SYMMETRY Symmetry
INVARIANTS EffectsOnceAndMarked AnswersHold RowsAgree DeadlockNeedsLostAttempt
CHECK_DEADLOCK FALSE
