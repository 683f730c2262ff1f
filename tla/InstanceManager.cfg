SPECIFICATION Spec
CONSTANTS
  Threads = {t1, t2, t3}
  Collector = gc
  Handles = {h1, h2, h3}
  None = None
  EarlyCollect = FALSE
SYMMETRY Symmetry
INVARIANTS
  TypeOK
  NoUseAfterFree
  NumbersAccounted
  OwnInstance
  ClosedStaysClosed
  CollectedIsFreed
  WaitsOnlyForRunning
