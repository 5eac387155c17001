CONSTANTS
  Capacity = 3
  MaxBatch = 4
  MaxItems = 7
SPECIFICATION FairSpec
INVARIANTS
  TypeOK SlotsExclusive NoOverwrite FifoOrder
  DrainedBeforeClosed CleanDeletion NoLostWakeup
PROPERTIES ImplementsFifo PeerGoneUnblocks SleeperServed
CHECK_DEADLOCK FALSE
