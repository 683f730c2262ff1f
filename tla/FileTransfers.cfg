SPECIFICATION Spec
CONSTANTS
  alice = alice
  bob = bob
  Peers = {alice, bob}
  Numbers = {0, 1}
  Sizes = {1, 3}
  DataSize = 2
  WordSize = 8
  MaxSends <- TwoAndOne
  MaxNet = 4
  Garbage = {"INITIAL"}
  Allowed = {}
  None = None
INVARIANTS
  TypeOK
  NoAbort
  MapMirrors
  NoOverrun
  InOrder
  RequestsCurrent
  EndsTold
  NeverStuck
