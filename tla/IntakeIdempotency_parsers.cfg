SPECIFICATION IntakeSpec
CONSTANTS
  Requests = {r1, r2, r3}
  Keys = {k1, k2}
  Contents = {c1}
  ParseConcurrency = 2
INVARIANTS ParserConcurrencyBounded
CHECK_DEADLOCK FALSE
