SPECIFICATION Spec
CONSTANTS
  Procs = {p1, p2, p3}
  NoProc = NoProc
  Names = {n1, NoName}
  NoName = NoName
  GivenIds = {2}
  UseExisting = TRUE
  MaxTime = 2
SYMMETRY Symmetry
INVARIANTS TypeOK OneKing NextIdFresh MruSorted WindowsAreTracked
CHECK_DEADLOCK FALSE
