SPECIFICATION FairSpec
CONSTANTS
  Capacity = 1
  MaxText = 3
  Handoffs = {TRUE, FALSE}
INVARIANTS TypeOK OneCloser ExitMessageIsLast NoUseAfterFree
PROPERTIES CloseReturns ReleaseEnds
CHECK_DEADLOCK FALSE
