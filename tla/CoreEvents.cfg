SPECIFICATION Spec
CONSTANTS
  Threads = {t1, t2}
  Occurring = {"file_control", "file_data"}
  MaxArrivals = 2
  MaxIterations = 2
  None = None
SYMMETRY Symmetry
INVARIANTS
  TypeOK
  Conserved
  HandedInOrder
  ClientKnowsConnection
