SPECIFICATION CanonicalSpec
CONSTANTS
  Requests = {r1, r2, r3}
  Keys = {k1, k2}
  Contents = {c1, c2}
  ParseConcurrency = 2
INVARIANTS KeyIsIdempotent RetryNeverConflicts
PROPERTIES EveryRequestAnswered
CHECK_DEADLOCK FALSE
