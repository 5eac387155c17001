CONSTANTS
  Callers = {c1, main}
  Main = main
  NEngines = 2
  MaxTries = 3
  Outcomes = {"ok", "failed", "pending"}
  MaxCalls = 3
  MaxToggles = 2
SPECIFICATION FairSpec
INVARIANTS TypeOK NoFrameWithoutRequest AtMostOneLateFrame
PROPERTIES SignalIsPainted TeardownReturns DestructorReturns
CHECK_DEADLOCK FALSE
