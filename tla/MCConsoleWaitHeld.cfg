SPECIFICATION Spec
CONSTANTS
  c1 = c1
  c2 = c2
  Null = Null
  Clients <- TwoClients
  Threads <- ThreeThreads
  Handles <- ThreeHandles
  UserBuffer = 1
  MaxEvents = 2
INVARIANTS NoReasonNoWait
CHECK_DEADLOCK FALSE
