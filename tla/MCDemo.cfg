SPECIFICATION FairSpec
CONSTANTS
  Count = 2
INVARIANTS BelievedIsKnown
PROPERTIES StateChangedReturns LossIsSeen
CHECK_DEADLOCK FALSE
