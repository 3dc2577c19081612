SPECIFICATION Spec
CONSTANTS
  Jobs = {j1}
  MaxRetries = 1
INVARIANTS NoEffectIsReplayed
CHECK_DEADLOCK FALSE
