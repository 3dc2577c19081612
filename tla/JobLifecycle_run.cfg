SPECIFICATION FairSpec
CONSTANTS
  Jobs = {j1}
  MaxRetries = 1
INVARIANTS RowsConsistent PublishedByItsAttempt OpenTxnOwnsJob EffectReplayedOnlyIfLate
PROPERTIES ImplementsContract EveryJobEnds
CHECK_DEADLOCK FALSE
