SPECIFICATION FairSpec
CONSTANTS
  alice = alice
  bob = bob
  Peers = {alice, bob}
  Numbers = {0}
  Sizes = {1, 3}
  DataSize = 2
  WordSize = 8
  MaxSends <- TwoAndOne
  MaxNet = 4
  Garbage = {"INITIAL"}
  Allowed = {}
  None = None
PROPERTIES
  Completes
  ImplementsDelivery
