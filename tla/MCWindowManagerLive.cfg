SPECIFICATION FairSpec
CONSTANTS
  Procs = {p1, p2, p3}
  NoProc = NoProc
  Names = {}
  NoName = NoName
  GivenIds = {}
  UseExisting = FALSE
  MaxTime = 2
PROPERTIES WindowsFindMonarch
CHECK_DEADLOCK FALSE
