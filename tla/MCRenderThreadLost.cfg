CONSTANTS
  Callers = {c1, main}
  Main = main
  NEngines = 1
  MaxTries = 1
  Outcomes = {"ok"}
  MaxCalls = 2
  MaxToggles = 1
SPECIFICATION FairSpec
PROPERTY RequestIsPainted
CHECK_DEADLOCK FALSE
