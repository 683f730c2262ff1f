SPECIFICATION Spec
CONSTANTS
  Threads = {t1, t2}
  Collector = gc
  Cores = {c1, c2}
  Avs = {a1, a2}
  None = None
  Allowed = {}
INVARIANTS
  TypeOK
  NoDanglingCore
  NoCrash
  CloseKills
