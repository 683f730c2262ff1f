SPECIFICATION Spec
CONSTANTS
  Numbers = {0}
  Keys = {k1}
  OwnKey = own
  BadKey = bad
  OddKey = odd
  MaxLength = 2
  Garbage = garbage
  Encrypted = encrypted
  None = None
  Nospams = {0}
  Statuses = {"NONE"}
  MaxBad = 0
  Allowed = {"oversized-chunk"}
INVARIANTS
  CodesReachJava
