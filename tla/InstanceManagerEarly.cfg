SPECIFICATION Spec
CONSTANTS
  Threads = {t1, t2}
  Collector = gc
  Handles = {h1, h2}
  None = None
  EarlyCollect = TRUE
INVARIANTS
  ClosedStaysClosed
