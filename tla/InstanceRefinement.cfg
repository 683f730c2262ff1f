SPECIFICATION FairSpec
CONSTANTS
  Threads = {t1, t2}
  Collector = gc
  Handles = {h1, h2}
  None = None
  EarlyCollect = TRUE
\* A thread that is stuck for ever is for the liveness properties to report.
CHECK_DEADLOCK FALSE
PROPERTIES
  RemovedIsFreed
  Quiescence
  ImplementsHandles
