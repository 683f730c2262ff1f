SPECIFICATION Spec
CONSTANTS
  alice = alice
  bob = bob
  Peers = {alice, bob}
  Numbers = {0}
  Sizes = {0, 3}
  DataSize = 2
  WordSize = 8
  MaxSends <- OneSender
  MaxNet = 2
  Garbage = {"INITIAL", "FRIEND"}
  Allowed = {"pause", "empty-chunk", "busy", "oversend", "delete"}
  None = None
\* A failed assertion ends the process.
CHECK_DEADLOCK FALSE
INVARIANTS
  Consent
