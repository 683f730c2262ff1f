SPECIFICATION Spec
CONSTANTS
  Threads = {t1, t2}
  Collector = gc
  Cores = {c1}
  Avs = {a1, a2}
  None = None
  Allowed = {"concurrent-close", "reclose", "leak", "second-session", "no-memory"}
INVARIANTS
  OneSession
