SPECIFICATION Spec
CONSTANTS
  Numbers = {0, 1}
  Keys = {k1, k2}
  OwnKey = own
  BadKey = bad
  OddKey = odd
  MaxLength = 2
  Garbage = garbage
  Encrypted = encrypted
  None = None
  Nospams = {0, 1}
  Statuses = {"NONE"}
  MaxBad = 1
  Allowed = {"bad-save"}
SYMMETRY Symmetry
INVARIANTS
  TypeOK
  CodesReachJava
  SeesWhatItGave
  DeleteReports
  AddedAreHeard
  LostOnlyByBadLoads
