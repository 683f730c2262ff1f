SPECIFICATION Spec
CONSTANTS
  alice = alice
  bob = bob
  Peers = {alice, bob}
  Numbers = {0}
  Sizes = {3}
  DataSize = 2
  WordSize = 8
  MaxSends <- OneSender
  MaxNet = 4
  Garbage = {"INITIAL"}
  Allowed = {}
  None = None
INVARIANTS
  RequestsOnlyOutgoing
