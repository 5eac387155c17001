SPECIFICATION FairSpec
CONSTANTS
  Clients = {c1}
  Inherit = {TRUE, FALSE}
INVARIANTS TypeOK TextBeforeExit NoRelock RenderWaitsForItself
PROPERTIES GracefulCloseExits
CHECK_DEADLOCK FALSE
